---- MODULE Spec2Model ----
(***************************************************************************)
(* Flowbeast: the flow-analysis service (src/lib/aiAnalysis.ts), its       *)
(* persistence into ai_insights / flow_patterns, and the CSV record        *)
(* normalizer (src/lib/csvParser.ts).                                      *)
(*                                                                         *)
(* Conventions of the model                                                *)
(*  - an instant is a whole number of hours since 00:00 of 1 January of    *)
(*    model year 0; every model year has 365 days and the local time zone  *)
(*    has no daylight-saving shift;                                        *)
(*  - a JavaScript number that is a quotient is kept as an exact fraction  *)
(*    <<numerator, denominator>> in lowest terms (Rat), NaN and Infinity   *)
(*    are the strings "NaN" and "Infinity";                                *)
(*  - a text built by a template literal is kept as the tuple of the       *)
(*    values the template interpolates.                                    *)
(***************************************************************************)
EXTENDS Integers, Sequences, FiniteSets, TLC

VARIABLES
    now,            \* the wall clock read by new Date()
    options_flow,   \* table options_flow of the user: a set of trade records
    ai_insights,    \* table ai_insights of the user: the inserted rows, in order
    flow_patterns,  \* table flow_patterns of the user: a set of rows
    nextId,         \* next primary key gen_random_uuid() hands out in flow_patterns
    pc,             \* per call of analyzeFlowData: the await it is at
    frame,          \* per call: its locals (timeRange, flows, historicalData,
                    \* the compute phase's results, storePatterns' loop index and
                    \* existing) and the storage calls it has made
    outcome,        \* per call: what analyzeFlowData returned or threw
    faultsLeft,     \* number of storage calls that may still return an error
    started,        \* number of analyzeFlowData calls made so far
    detected,       \* per pattern key: the occurrences each run so far has detected
    generated,      \* number of insights the runs so far have generated
    overlapped,     \* some two runs have been in flight at the same time
    stored0,        \* flow_patterns as it was before the first run
    computed,       \* history: the inputs, instant and result of every compute phase
    csv,            \* parser: the file, what the reader made of it and the ParseResult
    engine,         \* compute phase on its own: the two record lists and the result
    chat,           \* component AIChat: its state, the runAnalysis calls in flight
    upload          \* component UploadSection: its state, the handleFiles calls in
                    \* flight and the timers armed

vars == << now, options_flow, ai_insights, flow_patterns, nextId, pc, frame, outcome,
           faultsLeft, started, detected, generated, overlapped, stored0, computed, csv, engine, chat, upload >>

(***************************************************************************)
(* Generic helpers                                                         *)
(***************************************************************************)
Max(a, b) == IF a >= b THEN a ELSE b
Min(a, b) == IF a <= b THEN a ELSE b
Abs(a) == IF a >= 0 THEN a ELSE -a

RECURSIVE GCD(_, _)
GCD(a, b) == IF b = 0 THEN a ELSE GCD(b, a % b)

\* the fraction n/d (d > 0) in lowest terms
Rat(n, d) == LET g == GCD(Abs(n), Abs(d))
             IN IF d < 0 THEN << (0 - n) \div g, (0 - d) \div g >>
                ELSE << n \div g, d \div g >>

RatGT(x, y) == x[1] * y[2] > y[1] * x[2]
RatMin(x, y) == IF RatGT(x, y) THEN y ELSE x

\* Number.prototype.toFixed(k) of n/d >= 0, as the integer count of 10^-k units
\* (round half up); scale = 10^k
ToFixed(n, d, scale) == (2 * n * scale + d) \div (2 * d)

RECURSIVE SumPremium(_)
SumPremium(s) == IF s = << >> THEN 0 ELSE Head(s).premium + SumPremium(Tail(s))

Map(s, Op(_)) == [i \in 1..Len(s) |-> Op(s[i])]

\* Op(v), with v evaluated once
With(v, Op(_)) == CHOOSE r \in { Op(x) : x \in {v} } : TRUE

Take(s, n) == SubSeq(s, 1, Min(n, Len(s)))

RECURSIVE SetToSeq(_)
SetToSeq(S) == IF S = {} THEN << >>
               ELSE LET x == CHOOSE y \in S : TRUE IN << x >> \o SetToSeq(S \ {x})

(***************************************************************************)
(* Array.prototype.sort with a comparator a.key - b.key: a stable sort of  *)
(* a sequence of pairs <<key, value>> by ascending key                     *)
(***************************************************************************)
\* the element at position i comes before the one at position j
SortsBefore(s, i, j) == s[i][1] < s[j][1] \/ (s[i][1] = s[j][1] /\ i < j)

StableSort(pairs) ==
    With(pairs,
         LAMBDA s :
             With([i \in 1..Len(s) |->
                      Cardinality({ j \in 1..Len(s) : SortsBefore(s, j, i) })],
                  LAMBDA rank :
                      [k \in 1..Len(s) |-> s[CHOOSE i \in 1..Len(s) : rank[i] = k - 1]]))

(***************************************************************************)
(* AIAnalysisService: helpers                                              *)
(***************************************************************************)
\* the keys an object or a Map gets when ks are set in turn: insertion order
KeyOrder(ks) ==
    LET first == SelectSeq([i \in 1..Len(ks) |-> i],
                           LAMBDA i : \A j \in 1..(i - 1) : ks[j] # ks[i])
    IN [n \in 1..Len(first) |-> ks[first[n]]]

\* keys of the object groupByTicker builds
TickerOrder(fs) == KeyOrder(Map(fs, LAMBDA f : f.ticker_symbol))

\* the array groupByTicker stores under one key
TickerGroup(fs, ticker) == SelectSeq(fs, LAMBDA f : f.ticker_symbol = ticker)

\* groupByTicker as Object.entries reads it: a sequence of <<ticker, records>>
groupByTicker(fs) == Map(TickerOrder(fs), LAMBDA t : << t, TickerGroup(fs, t) >>)

IsCall(f) == f.option_type \in {"call", "c"}
IsPut(f) == f.option_type \in {"put", "p"}

calculateCallPutRatio(fs) ==
    LET calls == Len(SelectSeq(fs, IsCall))
        puts == Len(SelectSeq(fs, IsPut))
    IN [ratio |-> IF puts = 0 THEN Rat(calls, 1) ELSE Rat(calls, puts),
        calls |-> calls, puts |-> puts]

\* Date.prototype.getHours of a trade time
getHours(t) == t % 24

(***************************************************************************)
(* generateInsights                                                        *)
(***************************************************************************)
HighValue(f) == f.premium > 500000

highValueInsight(fs, hist) ==
    LET highValueFlows == SelectSeq(fs, HighValue)
        avgHistoricalHighValue == Len(SelectSeq(hist, HighValue))
        num == (Len(highValueFlows) - avgHistoricalHighValue) * 100
        den == Max(avgHistoricalHighValue, 1)
    IN IF Len(highValueFlows) > 0
       THEN << [type |-> "trend",
                title |-> << "High-Value Flow Activity" >>,
                description |-> << Len(highValueFlows),
                                   IF num > 0 THEN "up" ELSE "down",
                                   ToFixed(Abs(num), den, 10) >>,
                confidence |-> Rat(85, 100),
                dataPoints |-> Map(highValueFlows,
                                   LAMBDA f : [ticker |-> f.ticker_symbol,
                                               premium |-> f.premium,
                                               type |-> f.option_type,
                                               trade_type |-> f.trade_type])] >>
       ELSE << >>

\* todayFlows.length / Math.max(historicalAvg, 1), historicalAvg = h / 30
volumeIncrease(today, h) == IF h > 30 THEN Rat(30 * today, h) ELSE Rat(today, 1)

\* the minimum of today's volume is not asked for
volumeInsight_AnyVolume(ticker, todayFlows, hist) ==
    LET h == Len(TickerGroup(hist, ticker))
        inc == volumeIncrease(Len(todayFlows), h)
    IN IF RatGT(inc, << 3, 1 >>)
       THEN << [type |-> "anomaly",
                title |-> << "Unusual Volume", ticker >>,
                description |-> << ticker, ToFixed(inc[1], inc[2], 10),
                                   Len(todayFlows), ToFixed(h, 30, 10) >>,
                confidence |-> RatMin(Rat(9, 10), Rat(inc[1] + 3 * inc[2], 10 * inc[2])),
                dataPoints |-> Take(todayFlows, 5)] >>
       ELSE << >>

volumeInsight(ticker, todayFlows, hist) ==
    LET h == Len(TickerGroup(hist, ticker))
        inc == volumeIncrease(Len(todayFlows), h)
    IN IF RatGT(inc, << 3, 1 >>) /\ Len(todayFlows) > 5
       THEN << [type |-> "anomaly",
                title |-> << "Unusual Volume", ticker >>,
                description |-> << ticker, ToFixed(inc[1], inc[2], 10),
                                   Len(todayFlows), ToFixed(h, 30, 10) >>,
                \* 0.6 + (volumeIncrease - 3) * 0.1 = (volumeIncrease + 3) / 10
                confidence |-> RatMin(Rat(9, 10), Rat(inc[1] + 3 * inc[2], 10 * inc[2])),
                dataPoints |-> Take(todayFlows, 5)] >>
       ELSE << >>

RECURSIVE volumeInsights(_, _)
volumeInsights(entries, hist) ==
    IF entries = << >> THEN << >>
    ELSE volumeInsight(Head(entries)[1], Head(entries)[2], hist)
         \o volumeInsights(Tail(entries), hist)

sentimentInsight(fs, hist) ==
    LET callPutRatio == calculateCallPutRatio(fs)
        historicalCallPutRatio == calculateCallPutRatio(hist)
        a == callPutRatio.ratio
        b == historicalCallPutRatio.ratio
    IN IF 10 * Abs(a[1] * b[2] - b[1] * a[2]) > 3 * a[2] * b[2]
       THEN << [type |-> "trend",
                title |-> << "Sentiment Shift Detected" >>,
                description |-> << ToFixed(a[1], a[2], 100), ToFixed(b[1], b[2], 100),
                                   IF RatGT(a, b) THEN "bullish" ELSE "bearish" >>,
                confidence |-> Rat(75, 100),
                dataPoints |-> << callPutRatio, historicalCallPutRatio >>] >>
       ELSE << >>

generateInsights(fs, hist) ==
    highValueInsight(fs, hist)
    \o volumeInsights(groupByTicker(fs), hist)
    \o sentimentInsight(fs, hist)

(***************************************************************************)
(* detectPatterns                                                          *)
(***************************************************************************)
IsSweep(f) == f.trade_type = "sweep"
IsBlock(f) == f.trade_type = "block"
HighValueSweep(s) == s.premium > 100000

\* every sweep of the ticker is counted as an occurrence
sweepPattern_AllSweeps(ticker, sweeps) ==
    LET highValueSweeps == SelectSeq(sweeps, HighValueSweep)
    IN IF Len(sweeps) < 3 THEN << >>
       ELSE IF Len(highValueSweeps) >= 2
       THEN << [patternType |-> "sweep",
                ticker |-> ticker,
                name |-> << ticker, "Large Sweep Activity" >>,
                description |-> << Len(highValueSweeps),
                                   ToFixed(SumPremium(sweeps), Len(sweeps) * 1000, 1) >>,
                conditions |-> [minSweeps |-> 3, minPremium |-> 100000],
                occurrences |-> Len(sweeps)] >>
       ELSE << >>

sweepPattern(ticker, sweeps) ==
    LET highValueSweeps == SelectSeq(sweeps, HighValueSweep)
    IN IF Len(sweeps) < 3 THEN << >>
       ELSE IF Len(highValueSweeps) >= 2
       THEN << [patternType |-> "sweep",
                ticker |-> ticker,
                name |-> << ticker, "Large Sweep Activity" >>,
                description |-> << Len(highValueSweeps),
                                   ToFixed(SumPremium(sweeps), Len(sweeps) * 1000, 1) >>,
                conditions |-> [minSweeps |-> 3, minPremium |-> 100000],
                occurrences |-> Len(highValueSweeps)] >>
       ELSE << >>

\* a total of exactly 1,000,000 is enough
blockPattern_AtLeast(ticker, blocks) ==
    LET totalPremium == SumPremium(blocks)
    IN IF Len(blocks) < 2 THEN << >>
       ELSE IF totalPremium >= 1000000
       THEN << [patternType |-> "block",
                ticker |-> ticker,
                name |-> << ticker, "Large Block Activity" >>,
                description |-> << Len(blocks), ToFixed(totalPremium, 1000000, 10) >>,
                conditions |-> [minBlocks |-> 2, minTotalPremium |-> 1000000],
                occurrences |-> Len(blocks)] >>
       ELSE << >>

blockPattern(ticker, blocks) ==
    LET totalPremium == SumPremium(blocks)
    IN IF Len(blocks) < 2 THEN << >>
       ELSE IF totalPremium > 1000000
       THEN << [patternType |-> "block",
                ticker |-> ticker,
                name |-> << ticker, "Large Block Activity" >>,
                description |-> << Len(blocks), ToFixed(totalPremium, 1000000, 10) >>,
                conditions |-> [minBlocks |-> 2, minTotalPremium |-> 1000000],
                occurrences |-> Len(blocks)] >>
       ELSE << >>

\* the records are left in the order of the two reads
sortByTime_AsRead(tickerData) == tickerData

\* tickerData.sort((a, b) => time(a) - time(b))
sortByTime(tickerData) ==
    Map(StableSort(Map(tickerData, LAMBDA f : << f.time_of_trade, f >>)),
        LAMBDA p : p[2])

\* number of i in 1..length-1 with sortedFlows[i].premium > sortedFlows[i-1].premium
momentumCount(sortedFlows) ==
    Cardinality({i \in 2..Len(sortedFlows) :
                    sortedFlows[i].premium > sortedFlows[i - 1].premium})

\* only the increases beyond the third are counted as occurrences
momentumPattern_Excess(ticker, tickerData) ==
    LET count == momentumCount(sortByTime(tickerData))
    IN IF Len(tickerData) < 5 THEN << >>
       ELSE IF count >= 3
       THEN << [patternType |-> "momentum",
                ticker |-> ticker,
                name |-> << ticker, "Premium Momentum" >>,
                description |-> << count >>,
                conditions |-> [minConsecutiveIncreases |-> 3, minFlows |-> 5],
                occurrences |-> count - 3] >>
       ELSE << >>

momentumPattern(ticker, tickerData) ==
    LET count == momentumCount(sortByTime(tickerData))
    IN IF Len(tickerData) < 5 THEN << >>
       ELSE IF count >= 3
       THEN << [patternType |-> "momentum",
                ticker |-> ticker,
                name |-> << ticker, "Premium Momentum" >>,
                description |-> << count >>,
                conditions |-> [minConsecutiveIncreases |-> 3, minFlows |-> 5],
                occurrences |-> count] >>
       ELSE << >>

\* the array that results from pushing each element's items in turn
RECURSIVE Flatten(_)
Flatten(ss) == IF ss = << >> THEN << >> ELSE Head(ss) \o Flatten(Tail(ss))

detectSweepPatterns(fs) ==
    Flatten(Map(groupByTicker(SelectSeq(fs, IsSweep)),
                LAMBDA e : sweepPattern(e[1], e[2])))

detectBlockPatterns(fs) ==
    Flatten(Map(groupByTicker(SelectSeq(fs, IsBlock)),
                LAMBDA e : blockPattern(e[1], e[2])))

detectMomentumPatterns(fs) ==
    Flatten(Map(groupByTicker(fs), LAMBDA e : momentumPattern(e[1], e[2])))

\* the arrays after detectMomentumPatterns: groupByTicker pushes the records
\* into arrays of its own (acc[ticker] = []), one per ticker, and
\* tickerData.sort reorders the array of a ticker of 5 or more records in
\* place; the array passed in is only read
arraysAfterMomentum_SortsFlows(fs) ==
    [flows |-> sortByTime(fs),
     tickerFlows |-> groupByTicker(sortByTime(fs))]

arraysAfterMomentum(fs) ==
    [flows |-> fs,
     tickerFlows |-> Map(groupByTicker(fs),
                         LAMBDA e : << e[1], IF Len(e[2]) < 5 THEN e[2]
                                             ELSE sortByTime(e[2]) >>)]

detectPatterns(fs, hist) ==
    LET allData == fs \o hist
    IN detectSweepPatterns(allData)
       \o detectBlockPatterns(allData)
       \o detectMomentumPatterns(allData)

(***************************************************************************)
(* detectAnomalies; clock is the instant new Date() returns                *)
(***************************************************************************)
\* hourlyActivity: the entries of the Map, in insertion order
hourlyActivity(fs) ==
    LET hours == Map(fs, LAMBDA f : getHours(f.time_of_trade))
    IN Map(KeyOrder(hours),
           LAMBDA h : << h, Len(SelectSeq(hours, LAMBDA x : x = h)) >>)

\* the hour from 17:00 counts as a trading hour
afterHours_Evening == (0..8) \cup (18..23)

afterHours == (0..8) \cup (17..23)

afterHoursCount(fs) ==
    Len(SelectSeq(fs, LAMBDA f : getHours(f.time_of_trade) \in afterHours))

\* the hours are counted back from the instant of the run
detectTimingAnomalies_HoursAgo(fs, clock) ==
    LET count == afterHoursCount(fs)
    IN IF 10 * count > 3 * Len(fs)
       THEN << [type |-> "timing",
                ticker |-> "MARKET",
                description |-> << count, ToFixed(count * 100, Len(fs), 10) >>,
                severity |-> "medium",
                dataPoints |-> Map(fs, LAMBDA f : (clock - f.time_of_trade) % 24),
                timestamp |-> clock] >>
       ELSE << >>

detectTimingAnomalies(fs, clock) ==
    LET count == afterHoursCount(fs)
    IN IF 10 * count > 3 * Len(fs)
       THEN << [type |-> "timing",
                ticker |-> "MARKET",
                description |-> << count, ToFixed(count * 100, Len(fs), 10) >>,
                severity |-> "medium",
                dataPoints |-> hourlyActivity(fs),
                timestamp |-> clock] >>
       ELSE << >>

\* (todayAvgPremium - historicalAvgPremium) / historicalAvgPremium, with
\* todayAvg = sumT / nT and historicalAvg = sumH / nH (nH > 0): a division by
\* zero gives NaN (0/0) or an infinity
premiumChange(sumT, nT, sumH, nH) ==
    IF nT = 0 THEN [kind |-> "NaN", val |-> << 0, 1 >>]
    ELSE IF sumH = 0
    THEN (IF sumT = 0 THEN [kind |-> "NaN", val |-> << 0, 1 >>]
          ELSE [kind |-> "Infinity", val |-> << IF sumT > 0 THEN 1 ELSE -1, 1 >>])
    ELSE [kind |-> "finite", val |-> Rat(sumT * nH - sumH * nT, sumH * nT)]

RatAbs(x) == << Abs(x[1]), x[2] >>

\* the change is compared as it is, a fall never exceeds the threshold
AbsChangeGT_Signed(change, n, d) ==
    CASE change.kind = "NaN" -> FALSE
      [] change.kind = "Infinity" -> TRUE
      [] OTHER -> RatGT(change.val, << n, d >>)

\* Math.abs(premiumChange) > n/d; a comparison with NaN is false
AbsChangeGT(change, n, d) ==
    CASE change.kind = "NaN" -> FALSE
      [] change.kind = "Infinity" -> TRUE
      [] OTHER -> RatGT(RatAbs(change.val), << n, d >>)

detectPremiumAnomalies(fs, hist, clock) ==
    LET change == premiumChange(SumPremium(fs), Len(fs), SumPremium(hist), Len(hist))
    IN IF Len(hist) = 0 THEN << >>
       ELSE IF AbsChangeGT(change, 1, 2)
       THEN << [type |-> "premium",
                ticker |-> "MARKET",
                description |-> << IF change.val[1] > 0 THEN "increased" ELSE "decreased",
                                   change.kind,
                                   ToFixed(Abs(change.val[1]) * 100, change.val[2], 10) >>,
                severity |-> IF AbsChangeGT(change, 1, 1) THEN "high" ELSE "medium",
                dataPoints |-> << [type |-> "historical",
                                   value |-> Rat(SumPremium(hist), Len(hist))],
                                  [type |-> "current",
                                   value |-> Rat(SumPremium(fs), Len(fs))] >>,
                timestamp |-> clock] >>
       ELSE << >>

\* the timing of each ticker's records is judged on its own
detectAnomalies_PerTicker(fs, hist, clock) ==
    Flatten(Map(groupByTicker(fs), LAMBDA e : detectTimingAnomalies(e[2], clock)))
       \o detectPremiumAnomalies(fs, hist, clock)

detectAnomalies(fs, hist, clock) ==
    detectTimingAnomalies(fs, clock) \o detectPremiumAnomalies(fs, hist, clock)

(***************************************************************************)
(* generateSummary                                                         *)
(***************************************************************************)
\* the first five tickers in the order of the records
topTickers_Unsorted(fs) ==
    Take(Map(groupByTicker(fs), LAMBDA e : [ticker |-> e[1], activity |-> Len(e[2])]), 5)

topTickers(fs) ==
    LET entries == Map(groupByTicker(fs),
                       LAMBDA e : [ticker |-> e[1], activity |-> Len(e[2])])
        sorted == StableSort(Map(entries, LAMBDA e : << 0 - e.activity, e >>))
    IN Take(Map(sorted, LAMBDA p : p[2]), 5)

\* a ratio of exactly 1.2 counts as bullish
marketSentiment_Inclusive(ratio) ==
    IF ~RatGT(Rat(12, 10), ratio) THEN "bullish"
    ELSE IF RatGT(Rat(8, 10), ratio) THEN "bearish"
    ELSE "neutral"

marketSentiment(ratio) ==
    IF RatGT(ratio, Rat(12, 10)) THEN "bullish"
    ELSE IF RatGT(Rat(8, 10), ratio) THEN "bearish"
    ELSE "neutral"

\* two anomalies of severity 'high' are enough
riskLevel_AtLeast(anomalies) ==
    LET highSeverityAnomalies == Len(SelectSeq(anomalies, LAMBDA a : a.severity = "high"))
    IN IF highSeverityAnomalies >= 2 THEN "high"
       ELSE IF Len(anomalies) > 3 THEN "medium"
       ELSE "low"

riskLevel(anomalies) ==
    LET highSeverityAnomalies == Len(SelectSeq(anomalies, LAMBDA a : a.severity = "high"))
    IN IF highSeverityAnomalies > 2 THEN "high"
       ELSE IF Len(anomalies) > 3 THEN "medium"
       ELSE "low"

generateSummary(fs, patterns, anomalies) ==
    [totalFlowsAnalyzed |-> Len(fs),
     patternsDetected |-> Len(patterns),
     anomaliesFound |-> Len(anomalies),
     topTickers |-> topTickers(fs),
     marketSentiment |-> marketSentiment(calculateCallPutRatio(fs).ratio),
     riskLevel |-> riskLevel(anomalies)]

\* lines 62-65 of analyzeFlowData: the compute phase, run at instant clock
\* the two arrays analyzeFlowData holds after the four calls: the other
\* steps build their arrays with filter, the spread [...flows, ...historicalData],
\* Object.entries and map, and assign to no field of a record
arraysAfterCompute(fs, hist) ==
    [flows |-> arraysAfterMomentum(fs).flows,
     tickerFlows |-> arraysAfterMomentum(fs).tickerFlows,
     historicalData |-> hist]

computePhase(fs, hist, clock) ==
    LET insights == generateInsights(fs, hist)
        patterns == detectPatterns(fs, hist)
        anomalies == detectAnomalies(fs, hist, clock)
    IN [insights |-> insights,
        patterns |-> patterns,
        anomalies |-> anomalies,
        summary |-> generateSummary(fs, patterns, anomalies)]


(***************************************************************************)
(* Dates: getStartDate and the windows of the two reads                    *)
(***************************************************************************)
\* days of the year before the first day of month m (getMonth() = 0..11)
DaysBeforeMonth == << 0, 31, 59, 90, 120, 151, 181, 212, 243, 273, 304, 334 >>

getFullYear(t) == (t \div 24) \div 365
DayOfYear(t) == (t \div 24) % 365
getMonth(t) == CHOOSE m \in 0..11 :
                   /\ DaysBeforeMonth[m + 1] <= DayOfYear(t)
                   /\ \A k \in 0..11 : DaysBeforeMonth[k + 1] <= DayOfYear(t) => k <= m
getDate(t) == DayOfYear(t) - DaysBeforeMonth[getMonth(t) + 1] + 1

\* new Date(year, month, date) plus hours: a month of -1 is December of the year
\* before, and a date past the end of the month runs on into the next month
MakeDate(year, month, date, hours) ==
    LET y == IF month < 0 THEN year - 1 ELSE year
        m == IF month < 0 THEN month + 12 ELSE month
    IN (y * 365 + DaysBeforeMonth[m + 1] + date - 1) * 24 + hours

getStartDate(range, clock) ==
    CASE range = "today" -> MakeDate(getFullYear(clock), getMonth(clock), getDate(clock), 0)
      [] range = "week" -> MakeDate(getFullYear(clock), getMonth(clock),
                                    getDate(clock) - 7, getHours(clock))
      [] range = "month" -> MakeDate(getFullYear(clock), getMonth(clock) - 1,
                                     getDate(clock), getHours(clock))
      [] OTHER -> MakeDate(getFullYear(clock), getMonth(clock), getDate(clock), 0)

\* historicalStartDate.setDate(historicalStartDate.getDate() - 30)
historicalStartDate(endDate) ==
    MakeDate(getFullYear(endDate), getMonth(endDate), getDate(endDate) - 30,
             getHours(endDate))

TimeRanges == {"today", "week", "month"}

(***************************************************************************)
(* The store                                                               *)
(***************************************************************************)
\* .order('time_of_trade', {ascending: false}) over the selected rows
OrderDesc(rows) ==
    Map(StableSort(Map(SetToSeq(rows), LAMBDA r : << 0 - r.time_of_trade, r >>)),
        LAMBDA p : p[2])

\* select('*').gte('time_of_trade', startDate)
SelectFrom(table, startDate) ==
    OrderDesc({r \in table : r.time_of_trade >= startDate})

\* select('*').gte('time_of_trade', historicalStart).lt('time_of_trade', endDate)
SelectBetween(table, startDate, endDate) ==
    OrderDesc({r \in table : r.time_of_trade >= startDate /\ r.time_of_trade < endDate})

\* rows of flow_patterns with .eq('ticker_symbol', ..).eq('pattern_type', ..)
RowsOfKey(table, ticker, patternType) ==
    {r \in table : r.ticker_symbol = ticker /\ r.pattern_type = patternType}

Null == [id |-> 0]

\* .single(): the row when exactly one row matches, otherwise data is null
\* the first of several rows is returned, as with limit(1)
Single_First(rows) == IF rows = {} THEN Null ELSE CHOOSE r \in rows : TRUE

Single(rows) == IF Cardinality(rows) = 1 THEN CHOOSE r \in rows : TRUE ELSE Null

(***************************************************************************)
(* Analysis runs against the store: bounds and the data they run on        *)
(***************************************************************************)
MaxRuns == 2        \* analyzeFlowData calls made in a behaviour
MaxFaults == 1      \* storage calls that may return an error
MaxTicks == 1       \* hours the clock may advance

\* the calls of analyzeFlowData that may be in flight together (two sessions
\* of the user); a call takes the first free one
Runs == {"r1", "r2"}

\* 31 March of model year 1, 23:00
Now0 == MakeDate(1, 2, 31, 23)

Trade(id, time, ticker, premium, optionType, tradeType) ==
    [id |-> id, time_of_trade |-> time, ticker_symbol |-> ticker, premium |-> premium,
     option_type |-> optionType, trade_type |-> tradeType]

\* rows options_flow may hold: block trades of today, of exactly a week ago
\* and of five weeks ago
StoredTrades ==
    << Trade(1, Now0 - 1, "AAPL", 600000, "call", "block"),
       Trade(2, Now0 - 7 * 24, "AAPL", 600000, "put", "block"),
       Trade(3, Now0 - 35 * 24, "AAPL", 700000, "call", "block"),
       Trade(4, Now0 - 2, "TSLA", 800000, "call", "block"),
       Trade(5, Now0 - 3, "TSLA", 800000, "call", "block") >>

\* the contents of options_flow considered: the first n of StoredTrades
Tables == { {StoredTrades[i] : i \in 1..n} : n \in 0..Len(StoredTrades) }

PatternTypes == {"sweep", "block", "momentum"}
Keys == {StoredTrades[i].ticker_symbol : i \in 1..Len(StoredTrades)} \X PatternTypes
KeyOf(pattern) == << pattern.ticker, pattern.patternType >>

\* the row storePatterns inserts
PatternRow(id, pattern, clock) ==
    [id |-> id, ticker_symbol |-> pattern.ticker, pattern_type |-> pattern.patternType,
     pattern_name |-> pattern.name, occurrences |-> pattern.occurrences,
     last_seen |-> clock]

\* flow_patterns before the first run: empty, or one row left by an earlier run
InitialPatterns ==
    { {},
      { [id |-> 1, ticker_symbol |-> "AAPL", pattern_type |-> "block",
         pattern_name |-> << "AAPL", "Large Block Activity" >>, occurrences |-> 2,
         last_seen |-> Now0 - 24] } }

NoAnalysis == [insights |-> << >>, patterns |-> << >>, anomalies |-> << >>,
               summary |-> [totalFlowsAnalyzed |-> 0]]

\* the locals of a call that is not running
NoFrame == [timeRange |-> "today", flows |-> << >>, historicalData |-> << >>,
            start |-> 0, historicalStart |-> 0, historicalEnd |-> 0,
            analysis |-> NoAnalysis, idx |-> 0, existing |-> Null, log |-> << >>]

Pending == [kind |-> "pending"]
Thrown == [kind |-> "thrown"]
Returned(result) == [kind |-> "returned", value |-> result]

NoCsv == [phase |-> "off"]
NoEngine == [phase |-> "off"]
NoChat == [phase |-> "off"]
NoUpload == [phase |-> "off"]

Init ==
    /\ now = Now0
    /\ options_flow \in Tables
    /\ ai_insights = << >>
    /\ flow_patterns \in InitialPatterns
    /\ nextId = 2
    /\ pc = [p \in Runs |-> "idle"]
    /\ frame = [p \in Runs |-> NoFrame]
    /\ outcome = [p \in Runs |-> Pending]
    /\ faultsLeft = 0
    /\ started = 0
    /\ detected = [k \in Keys |-> << >>]
    /\ generated = 0
    /\ overlapped = FALSE
    /\ stored0 = flow_patterns
    /\ computed = {}
    /\ csv = NoCsv
    /\ engine = NoEngine
    /\ chat = NoChat
    /\ upload = NoUpload

InFlight(p) == pc[p] \notin {"idle", "done", "failed"}

store == << options_flow, ai_insights, flow_patterns, nextId >>

\* the clock advances by an hour
Tick ==
    /\ now < Now0 + MaxTicks
    /\ now' = now + 1
    /\ UNCHANGED << store, pc, frame, outcome, faultsLeft, started, detected, generated,
                    overlapped, stored0, computed, csv, engine, chat, upload >>

\* a storage call returns an error
Fault == faultsLeft > 0 /\ faultsLeft' = faultsLeft - 1

\* the frame of p with one more storage call on record
Logged(f, table, call, ok) == [f EXCEPT !.log = Append(@, << table, call, ok >>)]

\* a caller invokes analyzeFlowData(range)
Start(p, range) ==
    /\ ~InFlight(p)
    /\ p = "r1" \/ InFlight("r1")
    /\ started < MaxRuns
    /\ started' = started + 1
    /\ pc' = [pc EXCEPT ![p] = "getFlowData"]
    /\ frame' = [frame EXCEPT ![p] = [NoFrame EXCEPT !.timeRange = range]]
    /\ outcome' = [outcome EXCEPT ![p] = Pending]
    /\ overlapped' = (overlapped \/ \E q \in Runs \ {p} : InFlight(q))
    /\ UNCHANGED << now, store, faultsLeft, detected, generated, stored0, computed, csv, engine, chat, upload >>

\* the read error is logged and the call goes on
ThrowReadError_Swallowed(p) ==
    /\ pc' = [pc EXCEPT ![p] = IF pc[p] = "getFlowData" THEN "getHistoricalData"
                                                         ELSE "compute"]
    /\ UNCHANGED << outcome, frame >>

\* "if (error) throw error": analyzeFlowData rejects and its frame is gone
ThrowReadError(p) ==
    /\ pc' = [pc EXCEPT ![p] = "failed"]
    /\ outcome' = [outcome EXCEPT ![p] = Thrown]
    /\ frame' = [frame EXCEPT ![p] = NoFrame]

\* getFlowData: startDate from the clock, then the read
GetFlowData(p) ==
    /\ pc[p] = "getFlowData"
    /\ LET startDate == getStartDate(frame[p].timeRange, now)
       IN \/ /\ frame' = [frame EXCEPT ![p] =
                    Logged([@ EXCEPT !.flows = SelectFrom(options_flow, startDate),
                                     !.start = startDate],
                           "options_flow", "select", TRUE)]
             /\ pc' = [pc EXCEPT ![p] = "getHistoricalData"]
             /\ UNCHANGED << faultsLeft, outcome >>
          \/ /\ Fault
             /\ ThrowReadError(p)
    /\ UNCHANGED << now, store, started, detected, generated, overlapped, stored0,
                    computed, csv, engine, chat, upload >>

\* getHistoricalData: endDate from the clock again, then the read
GetHistoricalData(p) ==
    /\ pc[p] = "getHistoricalData"
    /\ LET endDate == getStartDate(frame[p].timeRange, now)
           startDate == historicalStartDate(endDate)
       IN \/ /\ frame' = [frame EXCEPT ![p] =
                    Logged([@ EXCEPT !.historicalData =
                                         SelectBetween(options_flow, startDate, endDate),
                                     !.historicalStart = startDate,
                                     !.historicalEnd = endDate],
                           "options_flow", "select", TRUE)]
             /\ pc' = [pc EXCEPT ![p] = "compute"]
             /\ UNCHANGED << faultsLeft, outcome >>
          \/ /\ Fault
             /\ ThrowReadError(p)
    /\ UNCHANGED << now, store, started, detected, generated, overlapped, stored0,
                    computed, csv, engine, chat, upload >>

\* detected, with the occurrences of each pattern of a run appended under its key
RECURSIVE Credit(_, _)
Credit(d, patterns) ==
    IF patterns = << >> THEN d
    ELSE Credit([d EXCEPT ![KeyOf(Head(patterns))] = Append(@, Head(patterns).occurrences)],
                Tail(patterns))

\* generateInsights, detectPatterns, detectAnomalies, generateSummary
Compute(p) ==
    /\ pc[p] = "compute"
    /\ frame' = [frame EXCEPT ![p].analysis =
                     computePhase(frame[p].flows, frame[p].historicalData, now)]
    /\ detected' = Credit(detected, frame'[p].analysis.patterns)
    /\ generated' = generated + Len(frame'[p].analysis.insights)
    /\ computed' = computed \cup { [flows |-> frame[p].flows,
                                     historicalData |-> frame[p].historicalData,
                                     at |-> now,
                                     result |-> frame'[p].analysis] }
    /\ pc' = [pc EXCEPT ![p] = "storeInsights"]
    /\ UNCHANGED << now, store, outcome, faultsLeft, started, overlapped, stored0, csv, engine, chat, upload >>

\* the rows storeInsights builds from the insights
insightsToStore(insights) ==
    Map(insights, LAMBDA i : [insight_type |-> i.type, title |-> i.title,
                              description |-> i.description,
                              confidence_score |-> i.confidence,
                              data_points |-> i.dataPoints])

\* the insert skips the rows the table already holds
insertRows_IgnoreDuplicates(table, rows) ==
    table \o SelectSeq(rows, LAMBDA r : \A i \in 1..Len(table) : table[i] # r)

\* .insert(rows) on a table without a uniqueness constraint
insertRows(table, rows) == table \o rows

\* storePatterns moves on to the pattern at index i of frame f, or is through
\* and analyzeFlowData returns its result
NextPattern(p, f, i) ==
    IF i <= Len(f.analysis.patterns)
    THEN /\ frame' = [frame EXCEPT ![p] = [f EXCEPT !.idx = i]]
         /\ pc' = [pc EXCEPT ![p] = "lookup"]
         /\ UNCHANGED outcome
    ELSE /\ frame' = [frame EXCEPT ![p] = NoFrame]
         /\ pc' = [pc EXCEPT ![p] = "done"]
         /\ outcome' = [outcome EXCEPT ![p] = Returned(f.analysis)]

\* the error of the insert propagates out of analyzeFlowData
StoreInsights_Rethrow(p) ==
    /\ pc[p] = "storeInsights"
    /\ \/ /\ ai_insights' = insertRows(ai_insights,
                                       insightsToStore(frame[p].analysis.insights))
          /\ NextPattern(p, Logged(frame[p], "ai_insights", "insert", TRUE), 1)
          /\ UNCHANGED faultsLeft
       \/ /\ Fault
          /\ ThrowReadError(p)
          /\ UNCHANGED ai_insights
    /\ UNCHANGED << now, options_flow, flow_patterns, nextId, started, detected,
                    generated, overlapped, stored0, computed, csv, engine, chat, upload >>

\* storeInsights: one insert of all rows; an error is logged and dropped
StoreInsights(p) ==
    /\ pc[p] = "storeInsights"
    /\ \/ /\ ai_insights' = insertRows(ai_insights,
                                       insightsToStore(frame[p].analysis.insights))
          /\ NextPattern(p, Logged(frame[p], "ai_insights", "insert", TRUE), 1)
          /\ UNCHANGED faultsLeft
       \/ /\ Fault
          /\ NextPattern(p, Logged(frame[p], "ai_insights", "insert", FALSE), 1)
          /\ UNCHANGED ai_insights
    /\ UNCHANGED << now, options_flow, flow_patterns, nextId, started, detected,
                    generated, overlapped, stored0, computed, csv, engine, chat, upload >>

\* storePatterns: "Check if pattern already exists"; a failed read leaves
\* existing null
LookupPattern(p) ==
    /\ pc[p] = "lookup"
    /\ LET pattern == frame[p].analysis.patterns[frame[p].idx]
           found == Single(RowsOfKey(flow_patterns, pattern.ticker, pattern.patternType))
       IN \/ /\ frame' = [frame EXCEPT ![p] =
                    Logged([@ EXCEPT !.existing = found], "flow_patterns", "select", TRUE)]
             /\ UNCHANGED faultsLeft
          \/ /\ Fault
             /\ frame' = [frame EXCEPT ![p] =
                    Logged([@ EXCEPT !.existing = Null], "flow_patterns", "select", FALSE)]
    /\ pc' = [pc EXCEPT ![p] = "write"]
    /\ UNCHANGED << now, store, outcome, started, detected, generated, overlapped,
                    stored0, computed, csv, engine, chat, upload >>

\* the update overwrites the count instead of adding to it
updatedOccurrences_Overwrite(existingRow, pattern) == pattern.occurrences

\* the value the update writes into occurrences
updatedOccurrences(existingRow, pattern) == existingRow.occurrences + pattern.occurrences

\* storePatterns: "Update existing pattern", .eq('id', existing.id)
UpdatePattern(p) ==
    /\ pc[p] = "write"
    /\ frame[p].existing # Null
    /\ LET pattern == frame[p].analysis.patterns[frame[p].idx]
           row == frame[p].existing
       IN \/ /\ flow_patterns' =
                   { IF r.id = row.id
                     THEN [r EXCEPT !.occurrences = updatedOccurrences(row, pattern),
                                    !.last_seen = now]
                     ELSE r : r \in flow_patterns }
             /\ NextPattern(p, Logged(frame[p], "flow_patterns", "update", TRUE),
                            frame[p].idx + 1)
             /\ UNCHANGED faultsLeft
          \/ /\ Fault
             /\ NextPattern(p, Logged(frame[p], "flow_patterns", "update", FALSE),
                            frame[p].idx + 1)
             /\ UNCHANGED flow_patterns
    /\ UNCHANGED << now, options_flow, ai_insights, nextId, started, detected,
                    generated, overlapped, stored0, computed, csv, engine, chat, upload >>

\* storePatterns: "Create new pattern"; last_seen is the column default NOW()
InsertPattern(p) ==
    /\ pc[p] = "write"
    /\ frame[p].existing = Null
    /\ LET pattern == frame[p].analysis.patterns[frame[p].idx]
       IN \/ /\ flow_patterns' = flow_patterns \cup {PatternRow(nextId, pattern, now)}
             /\ nextId' = nextId + 1
             /\ NextPattern(p, Logged(frame[p], "flow_patterns", "insert", TRUE),
                            frame[p].idx + 1)
             /\ UNCHANGED faultsLeft
          \/ /\ Fault
             /\ NextPattern(p, Logged(frame[p], "flow_patterns", "insert", FALSE),
                            frame[p].idx + 1)
             /\ UNCHANGED << flow_patterns, nextId >>
    /\ UNCHANGED << now, options_flow, ai_insights, started, detected, generated,
                    overlapped, stored0, computed, csv, engine, chat, upload >>

Next ==
    \/ \E p \in Runs : \E range \in TimeRanges : Start(p, range)
    \/ \E p \in Runs : GetFlowData(p)
    \/ \E p \in Runs : GetHistoricalData(p)
    \/ \E p \in Runs : Compute(p)
    \/ \E p \in Runs : StoreInsights(p)
    \/ \E p \in Runs : LookupPattern(p)
    \/ \E p \in Runs : UpdatePattern(p)
    \/ \E p \in Runs : InsertPattern(p)

\* the analysis runs of the user against a store whose calls succeed, within
\* one hour of the clock
Spec == Init /\ [][Next]_vars

\* one caller at a time
NextSingle ==
    \/ \E range \in TimeRanges : Start("r1", range)
    \/ GetFlowData("r1")
    \/ GetHistoricalData("r1")
    \/ Compute("r1")
    \/ StoreInsights("r1")
    \/ LookupPattern("r1")
    \/ UpdatePattern("r1")
    \/ InsertPattern("r1")

\* one caller against a store whose calls may return errors
InitFaults ==
    /\ now = Now0
    /\ options_flow \in Tables
    /\ ai_insights = << >>
    /\ flow_patterns \in InitialPatterns
    /\ nextId = 2
    /\ pc = [p \in Runs |-> "idle"]
    /\ frame = [p \in Runs |-> NoFrame]
    /\ outcome = [p \in Runs |-> Pending]
    /\ faultsLeft = MaxFaults
    /\ started = 0
    /\ detected = [k \in Keys |-> << >>]
    /\ generated = 0
    /\ overlapped = FALSE
    /\ stored0 = flow_patterns
    /\ computed = {}
    /\ csv = NoCsv
    /\ engine = NoEngine
    /\ chat = NoChat
    /\ upload = NoUpload

SpecFaults == InitFaults /\ [][NextSingle]_vars

\* one caller whose runs straddle ticks of the clock
InitClock ==
    /\ Init
    /\ flow_patterns = {}

NextClock == Tick \/ NextSingle

SpecClock == InitClock /\ [][NextClock]_vars

\* rows of one ticker that make all three kinds of pattern: three sweeps and
\* three blocks of today whose premiums rise with one pause
PatternTrades ==
    << Trade(1, Now0 - 6, "AAPL", 600000, "call", "sweep"),
       Trade(2, Now0 - 5, "AAPL", 700000, "call", "sweep"),
       Trade(3, Now0 - 4, "AAPL", 700000, "put", "sweep"),
       Trade(4, Now0 - 3, "AAPL", 800000, "call", "block"),
       Trade(5, Now0 - 2, "AAPL", 900000, "call", "block"),
       Trade(6, Now0 - 1, "AAPL", 1000000, "put", "block") >>

PatternTables == { {PatternTrades[i] : i \in 1..n} : n \in 0..Len(PatternTrades) }

\* the runs of one caller over these rows, one after the other, against a
\* store whose calls may return errors
InitPatterns ==
    /\ now = Now0
    /\ options_flow \in PatternTables
    /\ ai_insights = << >>
    /\ flow_patterns \in InitialPatterns
    /\ nextId = 2
    /\ pc = [p \in Runs |-> "idle"]
    /\ frame = [p \in Runs |-> NoFrame]
    /\ outcome = [p \in Runs |-> Pending]
    /\ faultsLeft = MaxFaults
    /\ started = 0
    /\ detected = [k \in Keys |-> << >>]
    /\ generated = 0
    /\ overlapped = FALSE
    /\ stored0 = flow_patterns
    /\ computed = {}
    /\ csv = NoCsv
    /\ engine = NoEngine
    /\ chat = NoChat
    /\ upload = NoUpload

SpecPatterns == InitPatterns /\ [][NextSingle]_vars


(***************************************************************************)
(* Properties of the runs and the store                                    *)
(***************************************************************************)
RECURSIVE SumOccurrences(_)
SumOccurrences(rows) ==
    IF rows = {} THEN 0
    ELSE LET r == CHOOSE x \in rows : TRUE
         IN r.occurrences + SumOccurrences(rows \ {r})

\* the occurrences flow_patterns holds under a key, over all its rows
TotalOcc(table, k) == SumOccurrences(RowsOfKey(table, k[1], k[2]))

Quiescent == \A p \in Runs : ~InFlight(p)

\* C1: two runs, one after the other, that detect the same (ticker,
\* patternType) with a then b occurrences, from no stored row for the key,
\* leave exactly one row for the key, and its occurrences is a + b.
C1_SequentialUpsert ==
    \A k \in Keys :
        ( /\ Quiescent
          /\ ~overlapped
          /\ RowsOfKey(stored0, k[1], k[2]) = {}
          /\ Len(detected[k]) = 2 )
        => \E r \in flow_patterns :
              /\ RowsOfKey(flow_patterns, k[1], k[2]) = {r}
              /\ r.occurrences = detected[k][1] + detected[k][2]

\* two sequential runs have detected 2 and then 3 occurrences under one key
C1_Witness ==
    \E k \in Keys :
        /\ Quiescent
        /\ ~overlapped
        /\ RowsOfKey(stored0, k[1], k[2]) = {}
        /\ detected[k] = << 2, 3 >>

\* C2: whatever the interleaving of two runs that detect the same key with a
\* and b occurrences, once both have finished the occurrences stored under
\* the key is what was stored before plus a + b.
C2_NoLostIncrement ==
    \A k \in Keys :
        (Quiescent /\ Len(detected[k]) = 2)
        => TotalOcc(flow_patterns, k) = TotalOcc(stored0, k) + detected[k][1] + detected[k][2]

\* C3: the occurrences of a stored row never decreases.
C3_OccurrencesMonotonic ==
    [][\A r \in flow_patterns : \A r2 \in flow_patterns' :
           r2.id = r.id => r2.occurrences >= r.occurrences]_vars

ReadPhase == {"getFlowData", "getHistoricalData"}
StorePhase == {"storeInsights", "lookup", "write"}

IsWrite(entry) == entry[2] \in {"insert", "update"}

\* the writes to flow_patterns a call has attempted
PatternWrites(log) ==
    Cardinality({ i \in 1..Len(log) : log[i][1] = "flow_patterns" /\ IsWrite(log[i]) })

\* C4: when the read of the current window or of the historical window
\* returns an error, analyzeFlowData rejects: it returns no result, it has
\* written nothing and it writes nothing afterwards.
C4_ReadFailureAborts ==
    [][\A p \in Runs :
          /\ (pc[p] \in ReadPhase /\ faultsLeft' < faultsLeft /\ pc'[p] # pc[p])
             => /\ pc'[p] = "failed"
                /\ outcome'[p] = Thrown
                /\ store' = store
                /\ \A i \in 1..Len(frame[p].log) : ~IsWrite(frame[p].log[i])
          /\ (pc[p] = "failed" /\ pc'[p] # pc[p])
             => /\ pc'[p] = "getFlowData"
                /\ store' = store]_vars

\* a call has been rejected on a failed read and the store is as it was
C4_Witness ==
    /\ pc["r1"] = "failed"
    /\ outcome["r1"] = Thrown
    /\ started = 1
    /\ faultsLeft < MaxFaults
    /\ ai_insights = << >>
    /\ flow_patterns = stored0

\* C5: a failed write never fails analyzeFlowData: the call returns what the
\* compute phase made of the two reads, the same as when every write
\* succeeds; a failed insights write is followed by the pattern writes, and
\* every detected pattern gets its write attempt.
C5_WriteFailureSwallowed ==
    [][\A p \in Runs :
          (pc[p] \in StorePhase /\ pc'[p] # pc[p])
          => /\ pc'[p] \in {"lookup", "write", "done"}
             /\ (pc[p] = "storeInsights" /\ Len(frame[p].analysis.patterns) > 0)
                => pc'[p] = "lookup"
             /\ pc'[p] = "done"
                => /\ outcome'[p] = Returned(computePhase(frame[p].flows,
                                                          frame[p].historicalData, now))
                   /\ PatternWrites(frame[p].log) + (IF pc[p] = "write" THEN 1 ELSE 0)
                        = Len(frame[p].analysis.patterns)]_vars

\* the insights write of a call failed, its pattern write went through and
\* the call returned its result
C5_Witness ==
    /\ pc["r1"] = "done"
    /\ started = 1
    /\ faultsLeft < MaxFaults
    /\ outcome["r1"].kind = "returned"
    /\ Len(outcome["r1"].value.insights) > 0
    /\ Len(outcome["r1"].value.patterns) > 0
    /\ ai_insights = << >>
    /\ flow_patterns # stored0

\* C6: storing insights only appends: no stored row is changed or removed,
\* and when the runs are through the table holds as many rows as the runs
\* generated insights, identical insights included.
C6_InsightsAppendOnly ==
    /\ [][SubSeq(ai_insights', 1, Len(ai_insights)) = ai_insights]_vars
    /\ [](Quiescent => Len(ai_insights) = generated)

\* two runs have generated the same insights and both copies are stored
C6_Witness ==
    /\ Quiescent
    /\ started = 2
    /\ Len(ai_insights) = generated
    /\ \E i \in 2..Len(ai_insights) : ai_insights[i] = ai_insights[1]

InSeq(x, s) == \E i \in 1..Len(s) : s[i] = x

\* C8: the historical window ends where the current window starts and begins
\* 30 days earlier, and no stored record from 30 days before the current
\* start on is in both reads or in neither, also when the clock advances
\* between the reads.
C8_WindowsAdjacent ==
    \A p \in Runs :
        pc[p] = "compute"
        => /\ frame[p].historicalEnd = frame[p].start
           /\ frame[p].historicalStart = frame[p].start - 30 * 24
           /\ \A r \in options_flow :
                 r.time_of_trade >= frame[p].start - 30 * 24
                 => (InSeq(r, frame[p].flows) # InSeq(r, frame[p].historicalData))

\* a result with the detection timestamps of its anomalies blanked
withoutTimestamps(result) ==
    [result EXCEPT !.anomalies = Map(@, LAMBDA a : [a EXCEPT !.timestamp = 0])]

SameInputs(a, b) == a.flows = b.flows /\ a.historicalData = b.historicalData

\* C7: two compute phases on the same current and historical records give
\* the same insights, patterns, anomalies and summary, whenever they run and
\* whatever was stored before.
C7_EnginePure ==
    \A a \in computed : \A b \in computed :
        SameInputs(a, b) => a.result = b.result

\* C7 as the code has it: they give the same insights, patterns and summary,
\* and the same anomalies but for the timestamp of each anomaly, which is the
\* instant of its own run.
C7_EnginePureButTimestamp ==
    \A a \in computed :
        /\ \A i \in 1..Len(a.result.anomalies) : a.result.anomalies[i].timestamp = a.at
        /\ \A b \in computed :
              SameInputs(a, b) => withoutTimestamps(a.result) = withoutTimestamps(b.result)

\* the same records went through the compute phase at two instants, with
\* anomalies, the second time over what the first run has stored
C7_Witness ==
    \E a \in computed : \E b \in computed :
        /\ SameInputs(a, b)
        /\ a.at # b.at
        /\ Len(a.result.anomalies) > 0
        /\ Len(a.result.patterns) > 0
        /\ ai_insights # << >>
        /\ flow_patterns # {}


(***************************************************************************)
(* csvParser.ts: strings                                                   *)
(*                                                                         *)
(* A string is a TLA+ string, read with Len and SubSeq; the only           *)
(* whitespace of the inputs is the blank.                                  *)
(***************************************************************************)
CharAt(s, i) == SubSeq(s, i, i)

UpperCase == "ABCDEFGHIJKLMNOPQRSTUVWXYZ"
LowerCase == "abcdefghijklmnopqrstuvwxyz"
Digits == "0123456789"

\* the position of character c in string s, 0 when it is not there
IndexOf(s, c) ==
    LET at == { i \in 1..Len(s) : CharAt(s, i) = c }
    IN IF at = {} THEN 0 ELSE CHOOSE i \in at : \A j \in at : i <= j

\* character c with the letters of alphabet from replaced by those of to
Recase(c, from, to) ==
    LET i == IndexOf(from, c) IN IF i = 0 THEN c ELSE CharAt(to, i)

RECURSIVE RecaseFrom(_, _, _, _)
RecaseFrom(s, i, from, to) ==
    IF i > Len(s) THEN ""
    ELSE Recase(CharAt(s, i), from, to) \o RecaseFrom(s, i + 1, from, to)

toLowerCase(s) == With(s, LAMBDA x : RecaseFrom(x, 1, UpperCase, LowerCase))
toUpperCase(s) == With(s, LAMBDA x : RecaseFrom(x, 1, LowerCase, UpperCase))

\* s from its first to its last character that is not a blank
Solid(s) ==
    LET solid == { i \in 1..Len(s) : CharAt(s, i) # " " }
    IN IF solid = {} THEN ""
       ELSE SubSeq(s, CHOOSE i \in solid : \A j \in solid : i <= j,
                      CHOOSE i \in solid : \A j \in solid : j <= i)

trim(s) == With(s, Solid)

RECURSIVE replaceWhitespaceFrom(_, _)
replaceWhitespaceFrom(s, i) ==
    IF i > Len(s) THEN ""
    ELSE (IF CharAt(s, i) # " " THEN CharAt(s, i)
          ELSE IF i > 1 /\ CharAt(s, i - 1) = " " THEN "" ELSE "_")
         \o replaceWhitespaceFrom(s, i + 1)

\* .replace(/\s+/g, '_')
replaceWhitespace(s) == With(s, LAMBDA x : replaceWhitespaceFrom(x, 1))

RECURSIVE removeFormattingFrom(_, _)
removeFormattingFrom(s, i) ==
    IF i > Len(s) THEN ""
    ELSE (IF CharAt(s, i) \in {"$", ",", " "} THEN "" ELSE CharAt(s, i))
         \o removeFormattingFrom(s, i + 1)

\* .replace(/[$,\s]/g, '')
removeFormatting(s) == With(s, LAMBDA x : removeFormattingFrom(x, 1))

includes(s, sub) ==
    \E i \in 1..(Len(s) - Len(sub) + 1) : SubSeq(s, i, i + Len(sub) - 1) = sub

IsDigit(c) == IndexOf(Digits, c) # 0

\* the length of the run of digits at the head of s
DigitRun(s) ==
    CHOOSE n \in 0..Len(s) :
        /\ \A i \in 1..n : IsDigit(CharAt(s, i))
        /\ n = Len(s) \/ ~IsDigit(CharAt(s, n + 1))

\* the number the first n characters of s write, all of them digits
RECURSIVE DigitsValue(_, _)
DigitsValue(s, n) ==
    IF n = 0 THEN 0
    ELSE 10 * DigitsValue(s, n - 1) + (IndexOf(Digits, CharAt(s, n)) - 1)

RECURSIVE Pow10(_)
Pow10(n) == IF n = 0 THEN 1 ELSE 10 * Pow10(n - 1)

undefined == [kind |-> "undefined"]
Number(num, den) == [kind |-> "number", val |-> Rat(num, den)]

\* parseFloat on an optional sign, digits and an optional fraction: the
\* longest such prefix is the number, and without a digit the result is NaN
parseFloat(s) ==
    LET signed == s # "" /\ CharAt(s, 1) \in {"-", "+"}
        body == IF signed THEN SubSeq(s, 2, Len(s)) ELSE s
        n == DigitRun(body)
        afterInt == SubSeq(body, n + 1, Len(body))
        fraction == IF afterInt # "" /\ CharAt(afterInt, 1) = "."
                    THEN SubSeq(afterInt, 2, Len(afterInt)) ELSE ""
        m == DigitRun(fraction)
        sign == IF signed /\ CharAt(s, 1) = "-" THEN -1 ELSE 1
    IN IF n = 0 /\ m = 0 THEN [kind |-> "NaN"]
       ELSE Number(sign * (DigitsValue(body, n) * Pow10(m) + DigitsValue(fraction, m)),
                   Pow10(m))


(***************************************************************************)
(* csvParser.ts: parseCSV                                                  *)
(*                                                                         *)
(* A JavaScript value is a tagged record; an object is the sequence of     *)
(* its << key, value >> pairs in insertion order; an error text is the     *)
(* tuple of its fixed part and the values interpolated into it.            *)
(***************************************************************************)
Str(s) == [kind |-> "string", s |-> s]

\* obj[key]: a later assignment to a key replaces the earlier one
Get(obj, key) ==
    LET hits == { i \in 1..Len(obj) : obj[i][1] = key }
    IN IF hits = {} THEN undefined
       ELSE obj[CHOOSE i \in hits : \A j \in hits : j <= i][2]

\* !value
Falsy(value) == value.kind = "undefined" \/ (value.kind = "string" /\ value.s = "")

HEADER_MAPPING ==
    [time_of_trade |-> "time_of_trade", time |-> "time_of_trade",
     timestamp |-> "time_of_trade", trade_time |-> "time_of_trade",
     tickersymbol |-> "ticker_symbol", ticker_symbol |-> "ticker_symbol",
     ticker |-> "ticker_symbol", symbol |-> "ticker_symbol",
     premium |-> "premium", option_premium |-> "premium", trade_premium |-> "premium",
     optiontype |-> "option_type", option_type |-> "option_type",
     type |-> "option_type", call_put |-> "option_type",
     tradetype |-> "trade_type", trade_type |-> "trade_type",
     side |-> "trade_type", buy_sell |-> "trade_type",
     score |-> "score", flow_score |-> "score", bullflow_score |-> "score",
     spotprice |-> "spot_price", spot_price |-> "spot_price",
     underlying_price |-> "spot_price", stock_price |-> "spot_price",
     strikeprice |-> "strike_price", strike_price |-> "strike_price",
     strike |-> "strike_price",
     impliedvolatility |-> "implied_volatility",
     implied_volatility |-> "implied_volatility", iv |-> "implied_volatility",
     volatility |-> "implied_volatility",
     openinterest |-> "open_interest", open_interest |-> "open_interest",
     oi |-> "open_interest"]

\* HEADER_MAPPING[normalized] || normalized
mappedHeader(header) ==
    With(replaceWhitespace(trim(toLowerCase(header))),
         LAMBDA normalized :
             IF normalized \in DOMAIN HEADER_MAPPING THEN HEADER_MAPPING[normalized]
             ELSE normalized)

\* the headerMapping object built from results.meta.fields
headerMappingOf(fields) ==
    Map(fields, LAMBDA header : << header, Str(mappedHeader(header)) >>)

parseNumericValue(value) ==
    IF Falsy(value) \/ value.kind # "string" THEN undefined
    ELSE With(parseFloat(removeFormatting(value.s)),
              LAMBDA parsed : IF parsed.kind = "NaN" THEN undefined ELSE parsed)

normalizeOptionType(value) ==
    With(trim(toLowerCase(value)),
         LAMBDA normalized :
             IF includes(normalized, "call") \/ normalized = "c" THEN "call"
             ELSE IF includes(normalized, "put") \/ normalized = "p" THEN "put"
             ELSE normalized)

normalizeTradeType(value) ==
    With(trim(toLowerCase(value)),
         LAMBDA normalized :
             IF includes(normalized, "buy") \/ normalized = "b" THEN "buy"
             ELSE IF includes(normalized, "sell") \/ normalized = "s" THEN "sell"
             ELSE normalized)

\* /^\d{1,2}:\d{2}:\d{2}$/
IsTimeOfDay(s) ==
    LET h == DigitRun(s)
        t == SubSeq(s, h + 1, Len(s))
    IN /\ h \in {1, 2}
       /\ Len(t) = 6
       /\ CharAt(t, 1) = ":" /\ IsDigit(CharAt(t, 2)) /\ IsDigit(CharAt(t, 3))
       /\ CharAt(t, 4) = ":" /\ IsDigit(CharAt(t, 5)) /\ IsDigit(CharAt(t, 6))

\* the date strings of the inputs that new Date(value) takes: YYYY-MM-DD
IsDate(s) ==
    /\ Len(s) = 10
    /\ \A i \in {1, 2, 3, 4, 6, 7, 9, 10} : IsDigit(CharAt(s, i))
    /\ CharAt(s, 5) = "-" /\ CharAt(s, 8) = "-"

\* parseDateTime: a time of day on the clock's date, a date, or else the
\* clock itself
parseDateTime(value, clock) ==
    With(trim(value),
         LAMBDA t :
             IF IsTimeOfDay(t)
             THEN [kind |-> "today", date |-> clock \div 24,
                   hours |-> DigitsValue(t, DigitRun(t)),
                   minutes |-> DigitsValue(SubSeq(t, DigitRun(t) + 2, DigitRun(t) + 3), 2),
                   seconds |-> DigitsValue(SubSeq(t, DigitRun(t) + 5, DigitRun(t) + 6), 2)]
             ELSE IF IsDate(value) THEN [kind |-> "date", value |-> value]
             ELSE [kind |-> "now", at |-> clock])

RequiredFields == << "time_of_trade", "ticker_symbol", "premium", "option_type",
                     "trade_type" >>

\* only the first missing field is reported
missingFields_FirstOnly(row) ==
    LET all == SelectSeq(RequiredFields, LAMBDA f : Falsy(Get(row, f)))
    IN IF all = << >> THEN << >> ELSE << Head(all) >>

\* the fields pushed onto missingFields
missingFields(row) == SelectSeq(RequiredFields, LAMBDA f : Falsy(Get(row, f)))

buildRecord(row, clock) ==
    LET premium == parseNumericValue(Get(row, "premium"))
    IN [time_of_trade |-> parseDateTime(Get(row, "time_of_trade").s, clock),
        ticker_symbol |-> trim(toUpperCase(Get(row, "ticker_symbol").s)),
        premium |-> IF premium.kind = "undefined" \/ premium.val[1] = 0
                    THEN Number(0, 1) ELSE premium,
        option_type |-> normalizeOptionType(Get(row, "option_type").s),
        trade_type |-> normalizeTradeType(Get(row, "trade_type").s),
        score |-> parseNumericValue(Get(row, "score")),
        spot_price |-> parseNumericValue(Get(row, "spot_price")),
        strike_price |-> parseNumericValue(Get(row, "strike_price")),
        implied_volatility |-> parseNumericValue(Get(row, "implied_volatility")),
        open_interest |-> parseNumericValue(Get(row, "open_interest"))]

OptionTypes == {"call", "put", "c", "p"}
\* the trade types before block and sweep were taken in
TradeTypes_BuySellOnly == {"buy", "sell"}

TradeTypes == {"buy", "sell", "block", "sweep"}

\* the body of results.data.forEach for the row at position index (from 0):
\* the record pushed onto validRecords and the error pushed onto errors
\* row[headerMapping[originalHeader] || originalHeader] = rawRow[originalHeader],
\* over Object.keys(rawRow)
mapRow(headerMapping, rawRow) ==
    Map(rawRow, LAMBDA kv : << IF Falsy(Get(headerMapping, kv[1])) THEN kv[1]
                               ELSE Get(headerMapping, kv[1]).s,
                               kv[2] >>)

\* the checks on the record built from a row with its required fields
\* an invalid trade_type is reported and the record is returned all the same
validateRecord_ReportsOnly(record, index) ==
    IF toLowerCase(record.option_type) \notin OptionTypes
    THEN [records |-> << >>,
          errors |-> << << "Row", index + 1, "Invalid option_type",
                           record.option_type >> >>]
    ELSE IF toLowerCase(record.trade_type) \notin TradeTypes
    THEN [records |-> << record >>,
          errors |-> << << "Row", index + 1, "Invalid trade_type",
                           record.trade_type >> >>]
    ELSE [records |-> << record >>, errors |-> << >>]

validateRecord(record, index) ==
    IF toLowerCase(record.option_type) \notin OptionTypes
    THEN [records |-> << >>,
          errors |-> << << "Row", index + 1, "Invalid option_type",
                           record.option_type >> >>]
    ELSE IF toLowerCase(record.trade_type) \notin TradeTypes
    THEN [records |-> << >>,
          errors |-> << << "Row", index + 1, "Invalid trade_type",
                           record.trade_type >> >>]
    ELSE [records |-> << record >>, errors |-> << >>]

processRow(headerMapping, rawRow, index, clock) ==
    With(mapRow(headerMapping, rawRow),
         LAMBDA row :
             IF missingFields(row) # << >>
             THEN [records |-> << >>,
                   errors |-> << << "Row", index + 1, "Missing required fields",
                                    missingFields(row) >> >>]
             ELSE With(buildRecord(row, clock),
                       LAMBDA record : validateRecord(record, index)))

\* the complete callback on the results of the reader
complete(results, clock) ==
    LET rows == With(headerMappingOf(results.meta.fields),
                     LAMBDA headerMapping :
                         [i \in 1..Len(results.data) |->
                             processRow(headerMapping, results.data[i], i - 1, clock)])
        validRecords == Flatten([i \in 1..Len(rows) |-> rows[i].records])
        rowErrors == Flatten([i \in 1..Len(rows) |-> rows[i].errors])
        parseErrors == Map(results.errors,
                           LAMBDA e : << "Parse error", e.message, e.row >>)
    IN [success |-> Len(validRecords) > 0,
        data |-> validRecords,
        errors |-> rowErrors \o parseErrors,
        totalRecords |-> Len(results.data)]

\* transform: "value ? value.toString().trim() : ''"
transform(value) == IF value = "" THEN "" ELSE trim(value)

\* the row object the reader builds from the cells of a line, header: true
papaRow(fields, cells) ==
    [j \in 1..Min(Len(fields), Len(cells)) |-> << fields[j], Str(transform(cells[j])) >>]
    \o (IF Len(cells) > Len(fields)
        THEN << << "__parsed_extra",
                   [kind |-> "array",
                    items |-> Map(SubSeq(cells, Len(fields) + 1, Len(cells)), transform)] >> >>
        ELSE << >>)

\* the field-count errors of the reader for the data rows, numbered from 0
papaErrors(fields, lines) ==
    LET ragged == SelectSeq([i \in 1..Len(lines) |-> i],
                            LAMBDA i : Len(lines[i]) # Len(fields))
    IN Map(ragged,
           LAMBDA i : [type |-> "FieldMismatch",
                       code |-> IF Len(lines[i]) < Len(fields) THEN "TooFewFields"
                                                               ELSE "TooManyFields",
                       message |-> << IF Len(lines[i]) < Len(fields)
                                      THEN "Too few fields" ELSE "Too many fields",
                                      Len(fields), Len(lines[i]) >>,
                       row |-> i - 1])

\* Papa.parse(file, {header: true, skipEmptyLines: true, transform}): the
\* first line names the fields and the empty lines are skipped
PapaParse(file) ==
    LET lines == SelectSeq(file.lines, LAMBDA cells : cells # << "" >>)
    IN [data |-> Map(lines, LAMBDA cells : papaRow(file.header, cells)),
        errors |-> papaErrors(file.header, lines),
        meta |-> [fields |-> file.header]]

MaxLines == 2

Headers ==
    { << "Time", "Ticker", "Premium", "Type", "Side" >>,
      << " Trade  Time ", "Symbol", "Option Premium", "Call Put", "Buy Sell", "Score" >>,
      << "time", "ticker", "premium", "type" >>,
      << "time", "ticker", "premium", "type", "side", "timestamp" >> }

Lines ==
    { << "10:30:00", "aapl", "$1,000", "CALL", "Buy" >>,
      << "0001-03-30", " tsla ", "500", "Puts", "SWEEP" >>,
      << "9:05:00", "AAPL", "-5", "c", "s" >>,
      << "10:30:00", "AAPL", "", "call", "buy" >>,
      << "", "  ", "100", "put", "sell" >>,
      << "10:30:00", "AAPL", "100", "straddle", "buy" >>,
      << "10:30:00", "AAPL", "100", "call", "hold" >>,
      << "10:30:00", "AAPL", "100", "call" >>,
      << "n/a", "MSFT", "abc", "p", "block", "0.9" >>,
      << "" >> }

\* a file is put together line by line and then parsed
InitCSV ==
    /\ now = Now0
    /\ options_flow = {}
    /\ ai_insights = << >>
    /\ flow_patterns = {}
    /\ nextId = 2
    /\ pc = [p \in Runs |-> "idle"]
    /\ frame = [p \in Runs |-> NoFrame]
    /\ outcome = [p \in Runs |-> Pending]
    /\ faultsLeft = 0
    /\ started = 0
    /\ detected = [k \in Keys |-> << >>]
    /\ generated = 0
    /\ overlapped = FALSE
    /\ stored0 = {}
    /\ computed = {}
    /\ engine = NoEngine
    /\ chat = NoChat
    /\ upload = NoUpload
    /\ \E header \in Headers :
          csv = [phase |-> "file", file |-> [header |-> header, lines |-> << >>]]

run == << now, store, pc, frame, outcome, faultsLeft, started, detected, generated,
          overlapped, stored0, computed >>

AddLine(cells) ==
    /\ csv.phase = "file"
    /\ Len(csv.file.lines) < MaxLines
    /\ csv' = [csv EXCEPT !.file.lines = Append(@, cells)]
    /\ UNCHANGED << run, engine, chat, upload >>

\* parseCSV(file) resolves with the result of the complete callback
ParseCSV ==
    /\ csv.phase = "file"
    /\ \E results \in {PapaParse(csv.file)} :
          csv' = [phase |-> "parsed", file |-> csv.file, results |-> results,
                  rows |-> Map(results.data,
                               LAMBDA rawRow : mapRow(headerMappingOf(results.meta.fields),
                                                      rawRow)),
                  result |-> complete(results, now)]
    /\ UNCHANGED << run, engine, chat, upload >>

\* the messages of the errors with which the reader may give up on a file
ReaderFailures == {"NotReadableError", "NotFoundError"}

\* the result when the error callback resolved with the empty result as well
failure_Success(error) ==
    [success |-> TRUE,
     data |-> << >>,
     errors |-> << >>,
     totalRecords |-> 0]

\* the result the error callback resolves with
failure(error) ==
    [success |-> FALSE,
     data |-> << >>,
     errors |-> << << "Failed to parse CSV", error.message >> >>,
     totalRecords |-> 0]

\* the reader cannot read the file and calls the error callback instead of
\* the complete callback
FailCSV ==
    /\ csv.phase = "file"
    /\ \E message \in ReaderFailures :
          csv' = [phase |-> "failed", file |-> csv.file,
                  result |-> failure([message |-> message])]
    /\ UNCHANGED << run, engine, chat, upload >>

NextCSV ==
    \/ \E cells \in Lines : AddLine(cells)
    \/ ParseCSV
    \/ FailCSV

SpecCSV == InitCSV /\ [][NextCSV]_vars


(***************************************************************************)
(* Properties of parseCSV                                                  *)
(***************************************************************************)
Range(s) == { s[i] : i \in 1..Len(s) }

\* the rows parseCSV goes through, under their mapped field names
InputRows == csv.rows

\* the header carries an alias of each of the five required columns
HasRequiredAliases ==
    With(headerMappingOf(csv.results.meta.fields),
         LAMBDA headerMapping :
             \A f \in Range(RequiredFields) :
                 \E j \in 1..Len(headerMapping) : headerMapping[j][2].s = f)

MissingIn(row) == { f \in Range(RequiredFields) : Falsy(Get(row, f)) }

\* no required field is empty, and the option type and the trade type
\* normalize into the accepted sets
WellFormed(row) ==
    /\ MissingIn(row) = {}
    /\ normalizeOptionType(Get(row, "option_type").s) \in {"call", "put"}
    /\ normalizeTradeType(Get(row, "trade_type").s) \in {"buy", "sell", "block", "sweep"}

\* the reader has found as many fields in every row as the header has
NoRaggedRow == csv.results.errors = << >>

\* one record per input row, in row order, and no error
AllRowsReturned ==
    /\ Len(csv.result.data) = Len(InputRows)
    /\ \A i \in 1..Len(InputRows) : csv.result.data[i] = buildRecord(InputRows[i], now)
    /\ csv.result.errors = << >>
    /\ csv.result.totalRecords = Len(InputRows)

\* C9: for a file whose header carries an alias of each required column and
\* whose rows are all well-formed, parseCSV returns one record per row, in
\* row order, an empty error list and totalRecords = the number of rows.
C9_WellFormedFile ==
    (csv.phase = "parsed" /\ HasRequiredAliases
     /\ \A i \in 1..Len(InputRows) : WellFormed(InputRows[i]))
    => AllRowsReturned

\* C9 as the code has it: the same, for a file in which moreover every row
\* has as many fields as the header; the reader's error for a row with more
\* or fewer fields is added to the error list.
C9_WellFormedFileNoRaggedRow ==
    (csv.phase = "parsed" /\ HasRequiredAliases /\ NoRaggedRow
     /\ \A i \in 1..Len(InputRows) : WellFormed(InputRows[i]))
    => AllRowsReturned

\* two well-formed rows of different content have been parsed into two records
C9_Witness ==
    /\ csv.phase = "parsed"
    /\ HasRequiredAliases
    /\ NoRaggedRow
    /\ Len(InputRows) = 2
    /\ \A i \in 1..2 : WellFormed(InputRows[i])
    /\ Len(csv.result.data) = 2
    /\ csv.result.data[1] # csv.result.data[2]

\* the "Row n: ..." strings of the error list for the row at position i
RowErrors(i) == SelectSeq(csv.result.errors, LAMBDA e : e[1] = "Row" /\ e[2] = i)

\* the "Parse error: ... (row n)" strings of the error list for that row
ParseErrors(i) == SelectSeq(csv.result.errors, LAMBDA e : e[1] = "Parse error" /\ e[3] = i - 1)

\* the row at position i is left out, with one "Row i: Missing required
\* fields" string that lists the missing fields, and the other rows go on
DroppedWithMissingFields(i) ==
    /\ Len(RowErrors(i)) = 1
    /\ RowErrors(i)[1][3] = "Missing required fields"
    /\ Range(RowErrors(i)[1][4]) = MissingIn(InputRows[i])
    /\ Len(RowErrors(i)[1][4]) = Cardinality(MissingIn(InputRows[i]))
    /\ Len(csv.result.data)
         = Cardinality({ j \in 1..Len(InputRows) : WellFormed(InputRows[j]) })
    /\ csv.result.totalRecords = Len(InputRows)

\* C10: a row with a required field absent or empty is left out of the
\* output and gets exactly one error string, with its 1-based index and
\* exactly the missing fields; the batch goes on.
C10_OneErrorPerMissingRow ==
    csv.phase = "parsed"
    => \A i \in 1..Len(InputRows) :
          MissingIn(InputRows[i]) # {}
          => /\ DroppedWithMissingFields(i)
             /\ Len(RowErrors(i)) + Len(ParseErrors(i)) = 1

\* C10 as the code has it: the row gets exactly one "Row n:" string, with its
\* 1-based index and exactly the missing fields; when it has more or fewer
\* fields than the header, the reader's "Parse error" string for it, with
\* the index from 0, is in the list as well.
C10_OneRowErrorPerMissingRow ==
    csv.phase = "parsed"
    => \A i \in 1..Len(InputRows) :
          MissingIn(InputRows[i]) # {}
          => /\ DroppedWithMissingFields(i)
             /\ Len(ParseErrors(i))
                  = (IF Len(InputRows[i]) = Len(csv.file.header) THEN 0 ELSE 1)

\* a row with two empty required fields has been dropped and the row after
\* it has been returned
C10_Witness ==
    /\ csv.phase = "parsed"
    /\ Len(InputRows) = 2
    /\ Cardinality(MissingIn(InputRows[1])) = 2
    /\ WellFormed(InputRows[2])
    /\ Len(csv.result.data) = 1
    /\ Len(csv.result.errors) = 1
\* the rows that pass the checks of parseCSV, in input order, as records
ValidRecords ==
    LET valid == SelectSeq(InputRows, WellFormed)
    IN [i \in 1..Len(valid) |-> buildRecord(valid[i], now)]

\* C11: the records parseCSV returns are exactly the valid rows, in input
\* order, wherever the invalid rows are; success is true exactly when a
\* record is returned; and when the reader fails on the whole file the result
\* has no data, one top-level error and totalRecords 0.
C11_PartialSuccess ==
    /\ csv.phase = "parsed"
       => /\ csv.result.data = ValidRecords
          /\ csv.result.success = (Len(csv.result.data) > 0)
          /\ csv.result.totalRecords = Len(InputRows)
    /\ csv.phase = "failed"
       => /\ csv.result.data = << >>
          /\ csv.result.success = FALSE
          /\ Len(csv.result.errors) = 1
          /\ csv.result.errors[1][1] = "Failed to parse CSV"
          /\ csv.result.totalRecords = 0

\* an invalid row before a valid one: one record and one error come back
C11_Witness ==
    /\ csv.phase = "parsed"
    /\ Len(InputRows) = 2
    /\ ~WellFormed(InputRows[1])
    /\ WellFormed(InputRows[2])
    /\ csv.result.data = << buildRecord(InputRows[2], now) >>
    /\ csv.result.success
    /\ csv.result.errors # << >>

\* the premium of a returned record is not negative
PremiumNotNegative(record) == record.premium.val[1] >= 0

\* C12: every returned record has premium >= 0, option_type 'call' or 'put'
\* and trade_type 'buy', 'sell', 'block' or 'sweep'; a row whose normalized
\* option type or trade type is outside these sets is dropped with a
\* "Row n:" error.
C12_RecordInvariants ==
    csv.phase = "parsed"
    => /\ \A i \in 1..Len(csv.result.data) :
             /\ PremiumNotNegative(csv.result.data[i])
             /\ csv.result.data[i].option_type \in {"call", "put"}
             /\ csv.result.data[i].trade_type \in {"buy", "sell", "block", "sweep"}
       /\ \A i \in 1..Len(InputRows) :
             (MissingIn(InputRows[i]) = {} /\ ~WellFormed(InputRows[i]))
             => /\ Len(RowErrors(i)) = 1
                /\ RowErrors(i)[1][3] \in {"Invalid option_type", "Invalid trade_type"}
                /\ Len(csv.result.data)
                     = Cardinality({ j \in 1..Len(InputRows) : WellFormed(InputRows[j]) })
(***************************************************************************)
(* The compute phase on record lists of its own: lines 62-65 of            *)
(* analyzeFlowData applied to what the two reads may return                *)
(***************************************************************************)
MaxSweeps == 4          \* sweeps above 100,000 of a ticker in the current window
MaxBlocks == 3          \* blocks of a ticker in the current window
MaxHighValue == 3       \* records above 500,000 in the current window
MaxMomentum == 6        \* records of a ticker at instants of their own
MaxCalls == 6           \* calls in the current window
MaxPuts == 5            \* puts in the current window
MaxAfterHours == 4      \* records outside the trading hours in the current window
MaxRegularHours == 7    \* records within the trading hours in the current window
MaxOfPremium == 2       \* records of one premium in a window
MaxVolume == 8          \* records of a ticker in the current window

\* n rows of options_flow that differ in their id only
Rows(n, base, time, ticker, premium, optionType, tradeType) ==
    { Trade(base + i, time, ticker, premium, optionType, tradeType) : i \in 1..n }

\* instants of the current window and of the historical window of 'today'
Today(hour) == getStartDate("today", Now0) + hour
DaysAgo(days, hour) == getStartDate("today", Now0) - 24 * days + hour

\* what the two reads return for these rows: each list ordered by
\* time_of_trade, descending
Input(current, historical) ==
    [flows |-> OrderDesc(current), historicalData |-> OrderDesc(historical)]

\* sweeps of XYZ above and below 100,000 in both windows, a buy of XYZ and
\* two or three sweeps of QQQ
SweepInputs ==
    { Input(Rows(a, 0, Today(15), "XYZ", 150000, "call", "sweep")
            \cup Rows(b, 10, Today(14), "XYZ", 50000, "call", "sweep")
            \cup Rows(1, 20, Today(13), "XYZ", 150000, "put", "buy")
            \cup Rows(e, 30, Today(12), "QQQ", 100001, "put", "sweep"),
            Rows(c, 40, DaysAgo(1, 11), "XYZ", 150000, "call", "sweep")
            \cup Rows(d, 50, DaysAgo(2, 10), "XYZ", 100000, "put", "sweep")) :
        a \in 0..MaxSweeps, b \in 0..2, c \in 0..1, d \in 0..1, e \in 2..3 }

\* blocks of XYZ of 500,000 and of 600,000, a sweep of XYZ and one block of QQQ
BlockInputs ==
    { Input(Rows(a, 0, Today(15), "XYZ", 500000, "call", "block")
            \cup Rows(1, 20, Today(13), "XYZ", 2000000, "put", "sweep")
            \cup Rows(1, 30, Today(12), "QQQ", 1200000, "put", "block"),
            Rows(b, 40, DaysAgo(1, 11), "XYZ", 600000, "call", "block")) :
        a \in 0..MaxBlocks, b \in 0..2 }

\* records above 500,000 in both windows and one of exactly 500,000
HighValueInputs ==
    { Input(Rows(a, 0, Today(15), "XYZ", 600000, "call", "buy")
            \cup Rows(1, 20, Today(13), "QQQ", 500000, "put", "sell"),
            Rows(b, 40, DaysAgo(1, 11), "XYZ", 700000, "call", "buy")
            \cup Rows(1, 50, DaysAgo(3, 11), "XYZ", 500000, "call", "buy")) :
        a \in 0..MaxHighValue, b \in 0..2 }

\* the premium of the i-th record of XYZ in time: 1, 2, 1, 4, 5, 1, 7, ...
\* hundred thousand
PremiumAt(i) == IF i % 3 = 0 THEN 100000 ELSE i * 100000

\* any of the records of XYZ at the instants 1..MaxMomentum, the first three
\* of them in the historical window, and a record of QQQ in between
MomentumInputs ==
    { Input({ Trade(i, Today(9 + i), "XYZ", PremiumAt(i), "call", "buy") : i \in present \ (1..3) }
            \cup Rows(1, 20, Today(13), "QQQ", 900000, "put", "sell"),
            { Trade(i, DaysAgo(4 - i, 10), "XYZ", PremiumAt(i), "call", "buy") :
                  i \in present \cap (1..3) }) :
        present \in SUBSET (1..MaxMomentum) }

\* calls and puts in the current window, calls in the historical window
SentimentInputs ==
    { Input(Rows(a, 0, Today(15), "XYZ", 100000, "call", "buy")
            \cup Rows(b, 10, Today(14), "XYZ", 100000, "put", "buy"),
            Rows(3, 40, DaysAgo(1, 11), "XYZ", 100000, "call", "buy")) :
        a \in 0..MaxCalls, b \in 0..MaxPuts }

\* hours outside and within the trading hours, the ends of both included
AfterHourAt(i) == << 8, 17, 0, 23, 3 >>[((i - 1) % 5) + 1]
RegularHourAt(i) == << 9, 16, 12 >>[((i - 1) % 3) + 1]

\* records outside and within the trading hours in the current window
TimingInputs ==
    { Input({ Trade(i, Today(AfterHourAt(i)), "XYZ", 100000, "call", "buy") : i \in 1..a }
            \cup { Trade(20 + i, Today(RegularHourAt(i)), "XYZ", 100000, "call", "buy") :
                       i \in 1..b },
            { }) :
        a \in 0..MaxAfterHours, b \in 0..MaxRegularHours }

\* premiums of 50,000 and 300,000 in the current window, of 100,000, 200,000
\* and 0 in the historical window
PremiumInputs ==
    { Input(Rows(a, 0, Today(15), "XYZ", 50000, "call", "buy")
            \cup Rows(b, 10, Today(14), "XYZ", 300000, "put", "buy"),
            Rows(c, 40, DaysAgo(1, 11), "XYZ", 100000, "call", "buy")
            \cup Rows(d, 50, DaysAgo(2, 11), "XYZ", 200000, "call", "buy")
            \cup Rows(e, 60, DaysAgo(3, 11), "XYZ", 0, "call", "buy")) :
        a \in 0..MaxOfPremium, b \in 0..MaxOfPremium,
        c \in 0..MaxOfPremium, d \in 0..MaxOfPremium, e \in 0..1 }

\* numbers of records of XYZ in the historical window: a daily average of
\* 0, of a half, of just over 1, of 2 and of over 2
HistoricalVolumes == {0, 15, 31, 60, 70}

\* records of XYZ in both windows and two or six records of QQQ
VolumeInputs ==
    { Input(Rows(a, 0, Today(15), "XYZ", 100000, "call", "buy")
            \cup Rows(b, 10, Today(14), "QQQ", 100000, "put", "buy"),
            Rows(c, 100, DaysAgo(1, 11), "XYZ", 100000, "call", "buy")) :
        a \in 4..MaxVolume, b \in {2, 6}, c \in HistoricalVolumes }

\* records of two tickers outside the trading hours at 300,000, records of
\* XYZ within them at 100,000, and historical records at 100,000
AnomalyInputs ==
    { Input({ Trade(i, Today(AfterHourAt(i)), IF i % 2 = 0 THEN "XYZ" ELSE "QQQ",
                    300000, "call", "buy") : i \in 1..a }
            \cup Rows(b, 20, Today(12), "XYZ", 100000, "put", "buy"),
            Rows(c, 40, DaysAgo(1, 11), "XYZ", 100000, "call", "buy")) :
        a \in 0..MaxAfterHours, b \in 0..MaxOfPremium, c \in 0..MaxOfPremium }

EngineInputs ==
    SweepInputs \cup BlockInputs \cup HighValueInputs \cup MomentumInputs
    \cup SentimentInputs \cup TimingInputs \cup PremiumInputs \cup VolumeInputs
    \cup AnomalyInputs

InitEngine ==
    /\ now = Now0
    /\ options_flow = {}
    /\ ai_insights = << >>
    /\ flow_patterns = {}
    /\ nextId = 2
    /\ pc = [p \in Runs |-> "idle"]
    /\ frame = [p \in Runs |-> NoFrame]
    /\ outcome = [p \in Runs |-> Pending]
    /\ faultsLeft = 0
    /\ started = 0
    /\ detected = [k \in Keys |-> << >>]
    /\ generated = 0
    /\ overlapped = FALSE
    /\ stored0 = {}
    /\ computed = {}
    /\ csv = NoCsv
    /\ chat = NoChat
    /\ upload = NoUpload
    /\ \E input \in EngineInputs :
          engine = [phase |-> "input", flows |-> input.flows,
                    historicalData |-> input.historicalData]

\* generateInsights, detectPatterns, detectAnomalies and generateSummary
\* applied to the two lists; callPutRatio is the local of generateSummary
Analyze ==
    /\ engine.phase = "input"
    /\ engine' = [phase |-> "analyzed", flows |-> engine.flows,
                  historicalData |-> engine.historicalData,
                  callPutRatio |-> calculateCallPutRatio(engine.flows),
                  arrays |-> arraysAfterCompute(engine.flows, engine.historicalData),
                  result |-> computePhase(engine.flows, engine.historicalData, now)]
    /\ UNCHANGED << run, csv, chat, upload >>

SpecEngine == InitEngine /\ [][Analyze]_vars
(***************************************************************************)
(* Properties of the compute phase                                         *)
(***************************************************************************)
Analyzed == engine.phase = "analyzed"

\* the union of current and historical records, and its tickers
AllData == engine.flows \o engine.historicalData
TickersOf(fs) == { fs[i].ticker_symbol : i \in 1..Len(fs) }

\* the records of ticker in fs that satisfy P, by their positions
Where(fs, ticker, P(_)) ==
    { i \in 1..Len(fs) : fs[i].ticker_symbol = ticker /\ P(fs[i]) }

\* the patterns of a type that the run has detected for ticker
PatternsOf(type, ticker) ==
    SelectSeq(engine.result.patterns,
              LAMBDA p : p.patternType = type /\ p.ticker = ticker)

\* every pattern of the type is for a ticker of the records
OnlyForTickers(type) ==
    \A i \in 1..Len(engine.result.patterns) :
        engine.result.patterns[i].patternType = type
        => engine.result.patterns[i].ticker \in TickersOf(AllData)

\* C13: over the union of current and historical records a ticker gets one
\* sweep pattern iff it has at least 3 sweeps and at least 2 of them above
\* 100,000, and the pattern's occurrences is the number of sweeps above
\* 100,000; otherwise it gets none.
C13_SweepPattern ==
    Analyzed
    => /\ OnlyForTickers("sweep")
       /\ \A t \in TickersOf(AllData) :
             LET sweeps == Cardinality(Where(AllData, t, LAMBDA f : f.trade_type = "sweep"))
                 high == Cardinality(Where(AllData, t,
                             LAMBDA f : f.trade_type = "sweep" /\ f.premium > 100000))
             IN IF sweeps >= 3 /\ high >= 2
                THEN /\ Len(PatternsOf("sweep", t)) = 1
                     /\ PatternsOf("sweep", t)[1].occurrences = high
                ELSE PatternsOf("sweep", t) = << >>

\* 6 sweeps of XYZ, 4 at 150,000 and 2 at 50,000: a sweep pattern of 4
\* occurrences, and none for the ticker with 2 sweeps
C13_Witness ==
    /\ Analyzed
    /\ Cardinality(Where(AllData, "XYZ", LAMBDA f : f.trade_type = "sweep")) = 6
    /\ Cardinality(Where(AllData, "XYZ",
                         LAMBDA f : f.trade_type = "sweep" /\ f.premium = 150000)) = 4
    /\ Cardinality(Where(AllData, "XYZ",
                         LAMBDA f : f.trade_type = "sweep" /\ f.premium = 50000)) = 2
    /\ Len(PatternsOf("sweep", "XYZ")) = 1
    /\ PatternsOf("sweep", "XYZ")[1].occurrences = 4
    /\ Cardinality(Where(AllData, "QQQ", LAMBDA f : f.trade_type = "sweep")) = 2
    /\ PatternsOf("sweep", "QQQ") = << >>

\* the sum of the premiums of the records at the positions in S
RECURSIVE PremiumOver(_, _)
PremiumOver(fs, S) ==
    IF S = {} THEN 0
    ELSE LET i == CHOOSE j \in S : TRUE IN fs[i].premium + PremiumOver(fs, S \ {i})

\* C19: over the union a ticker gets one block pattern iff it has at least 2
\* blocks whose premiums sum to more than 1,000,000, and the pattern's
\* occurrences is the number of its blocks; otherwise it gets none.
C19_BlockPattern ==
    Analyzed
    => /\ OnlyForTickers("block")
       /\ \A t \in TickersOf(AllData) :
             LET blocks == Where(AllData, t, LAMBDA f : f.trade_type = "block")
             IN IF Cardinality(blocks) >= 2 /\ PremiumOver(AllData, blocks) > 1000000
                THEN /\ Len(PatternsOf("block", t)) = 1
                     /\ PatternsOf("block", t)[1].occurrences = Cardinality(blocks)
                ELSE PatternsOf("block", t) = << >>

\* a block of 500,000 in the current window and one of 600,000 in the
\* historical window: a block pattern of 2 occurrences
C19_Witness ==
    /\ Analyzed
    /\ Cardinality(Where(engine.flows, "XYZ", LAMBDA f : f.trade_type = "block")) = 1
    /\ Cardinality(Where(engine.historicalData, "XYZ",
                         LAMBDA f : f.trade_type = "block")) = 1
    /\ Len(PatternsOf("block", "XYZ")) = 1
    /\ PatternsOf("block", "XYZ")[1].occurrences = 2

\* the instants of the records of ticker, and the premium traded at one
InstantsOf(ticker) ==
    { AllData[i].time_of_trade : i \in Where(AllData, ticker, LAMBDA f : TRUE) }
PremiumsAt(ticker, time) ==
    { AllData[i].premium : i \in Where(AllData, ticker, LAMBDA f : f.time_of_trade = time) }

\* the adjacent pairs of the records of ticker in ascending order of time
\* over which the premium strictly increases; records of one instant have
\* one premium here, so that they can be put in any order
Increases(ticker) ==
    { pair \in InstantsOf(ticker) \X InstantsOf(ticker) :
        /\ pair[1] < pair[2]
        /\ ~ \E between \in InstantsOf(ticker) : pair[1] < between /\ between < pair[2]
        /\ \E low \in PremiumsAt(ticker, pair[1]) :
             \E high \in PremiumsAt(ticker, pair[2]) : low < high }

OnePremiumPerInstant ==
    \A t \in TickersOf(AllData) :
        \A time \in InstantsOf(t) : Cardinality(PremiumsAt(t, time)) = 1

\* C20: a ticker with at least 5 records in the union gets a momentum pattern
\* iff, in ascending order of time, the premium strictly increases over at
\* least 3 adjacent pairs, and the pattern's occurrences is that number; a
\* ticker with fewer than 5 records gets none.
C20_MomentumPattern ==
    (Analyzed /\ OnePremiumPerInstant)
    => /\ OnlyForTickers("momentum")
       /\ \A t \in TickersOf(AllData) :
             IF Cardinality(Where(AllData, t, LAMBDA f : TRUE)) >= 5
                /\ Cardinality(Increases(t)) >= 3
             THEN /\ Len(PatternsOf("momentum", t)) = 1
                  /\ PatternsOf("momentum", t)[1].occurrences = Cardinality(Increases(t))
             ELSE PatternsOf("momentum", t) = << >>

\* five records at five instants in both windows, a fall of the premium among
\* them: a momentum pattern of 3 occurrences
C20_Witness ==
    /\ Analyzed
    /\ OnePremiumPerInstant
    /\ Cardinality(InstantsOf("XYZ")) = 5
    /\ Cardinality(Where(engine.flows, "XYZ", LAMBDA f : TRUE)) = 3
    /\ Cardinality(Where(engine.historicalData, "XYZ", LAMBDA f : TRUE)) = 2
    /\ \E a \in InstantsOf("XYZ") : \E b \in InstantsOf("XYZ") :
          a < b /\ \E x \in PremiumsAt("XYZ", a) : \E y \in PremiumsAt("XYZ", b) : y < x
    /\ Len(PatternsOf("momentum", "XYZ")) = 1
    /\ PatternsOf("momentum", "XYZ")[1].occurrences = 3
\* the number of records of fs that satisfy P
Count(fs, P(_)) == Cardinality({ i \in 1..Len(fs) : P(fs[i]) })

Calls == Count(engine.flows, LAMBDA f : f.option_type = "call")
Puts == Count(engine.flows, LAMBDA f : f.option_type = "put")

\* C14: the call/put ratio of the current records is calls / puts when there
\* is a put and the number of calls when there is none, a finite number in
\* both cases; the sentiment of the summary is 'bullish' iff the ratio is
\* above 1.2, 'bearish' iff it is below 0.8 and 'neutral' otherwise.
C14_RatioAndSentiment ==
    Analyzed
    => /\ engine.callPutRatio.ratio[2] > 0
       /\ engine.callPutRatio.ratio[1] * (IF Puts = 0 THEN 1 ELSE Puts)
            = Calls * engine.callPutRatio.ratio[2]
       /\ engine.result.summary.marketSentiment
            = (IF Puts = 0
               THEN (IF 10 * Calls > 12 THEN "bullish"
                     ELSE IF 10 * Calls < 8 THEN "bearish" ELSE "neutral")
               ELSE (IF 10 * Calls > 12 * Puts THEN "bullish"
                     ELSE IF 10 * Calls < 8 * Puts THEN "bearish" ELSE "neutral"))

\* 6 calls against 5 puts: a ratio of exactly 1.2, which is neutral
C14_Witness ==
    /\ Analyzed
    /\ Calls = 6
    /\ Puts = 5
    /\ engine.callPutRatio.ratio = << 6, 5 >>
    /\ engine.result.summary.marketSentiment = "neutral"

\* the anomalies of a kind that the run has found
AnomaliesOf(type) == SelectSeq(engine.result.anomalies, LAMBDA a : a.type = type)

\* the current records at an hour of day in 0..8 or 17..23
AfterHoursRecords ==
    Count(engine.flows,
          LAMBDA f : (f.time_of_trade % 24) \in ((0..8) \cup (17..23)))

\* C15: one anomaly of kind 'timing', for 'MARKET' and of severity 'medium',
\* is found iff the current records at an hour in 0..8 or 17..23 are strictly
\* more than 30% of the current records; none is found otherwise, so none at
\* exactly 30% and none for no records.
C15_TimingAnomaly ==
    Analyzed
    => IF 10 * AfterHoursRecords > 3 * Len(engine.flows)
       THEN /\ Len(AnomaliesOf("timing")) = 1
            /\ AnomaliesOf("timing")[1].ticker = "MARKET"
            /\ AnomaliesOf("timing")[1].severity = "medium"
       ELSE AnomaliesOf("timing") = << >>

\* 4 of 11 records after hours, at 8:00, 17:00, 0:00 and 23:00: a timing
\* anomaly
C15_Witness ==
    /\ Analyzed
    /\ Len(engine.flows) = 11
    /\ AfterHoursRecords = 4
    /\ Len(AnomaliesOf("timing")) = 1
    /\ AnomaliesOf("timing")[1].severity = "medium"

\* the sums of the premiums of the two lists
SumCurrent == PremiumOver(engine.flows, 1..Len(engine.flows))
SumHistorical == PremiumOver(engine.historicalData, 1..Len(engine.historicalData))

\* |(mean of current - mean of historical) / mean of historical| > n / d for
\* non-empty lists and a historical mean above 0
ChangeAbove(n, d) ==
    d * Abs(SumCurrent * Len(engine.historicalData) - SumHistorical * Len(engine.flows))
      > n * SumHistorical * Len(engine.flows)

\* the quotient as the division of numbers gives it: none (NaN) for an empty
\* current list or for two means of 0, infinite for a historical mean of 0
\* alone
NoChange == Len(engine.flows) = 0 \/ (SumHistorical = 0 /\ SumCurrent = 0)
InfiniteChange == Len(engine.flows) > 0 /\ SumHistorical = 0 /\ SumCurrent > 0

InsightsOf(title) == SelectSeq(engine.result.insights, LAMBDA x : x.title = title)

HighToday == Count(engine.flows, LAMBDA f : f.premium > 500000)
HighHistorical == Count(engine.historicalData, LAMBDA f : f.premium > 500000)

\* the direction and the percentage, in tenths, that the insight reports
ReportedChange == SubSeq(InsightsOf(<< "High-Value Flow Activity" >>)[1].description, 2, 3)

\* C17: the high-value insight is generated iff a current record has a
\* premium above 500,000; the change it reports is (todayCount -
\* historicalCount) / max(historicalCount, 1) x 100 over the counts of the
\* records above 500,000, and for a historical count of 0 it is 100% up
\* whatever todayCount is.
C17_HighValueTrend ==
    Analyzed
    => /\ Len(InsightsOf(<< "High-Value Flow Activity" >>)) = (IF HighToday > 0 THEN 1 ELSE 0)
       /\ HighToday > 0
          => /\ HighHistorical > 0
                => ReportedChange
                     = << IF HighToday > HighHistorical THEN "up" ELSE "down",
                          ToFixed(Abs(HighToday - HighHistorical) * 100, HighHistorical, 10) >>
             /\ HighHistorical = 0 => ReportedChange = << "up", 1000 >>

\* the unusual-volume insights of ticker
VolumeInsightsOf(ticker) == InsightsOf(<< "Unusual Volume", ticker >>)

Today_(ticker) == Cardinality(Where(engine.flows, ticker, LAMBDA f : TRUE))
Historical_(ticker) == Cardinality(Where(engine.historicalData, ticker, LAMBDA f : TRUE))

\* todayCount / max(historicalAvg, 1) > n, with historicalAvg = historical / 30
RatioAbove(ticker, n) ==
    IF Historical_(ticker) > 30 THEN 30 * Today_(ticker) > n * Historical_(ticker)
    ELSE Today_(ticker) > n

\* the confidence is 0.6 + (ratio - 3) x 0.1 = (ratio + 3) / 10
ConfidenceIsLinear(ticker, confidence) ==
    IF Historical_(ticker) > 30
    THEN confidence[1] * 10 * Historical_(ticker)
           = (30 * Today_(ticker) + 3 * Historical_(ticker)) * confidence[2]
    ELSE confidence[1] * 10 = (Today_(ticker) + 3) * confidence[2]

\* C18: a ticker of the current records gets one unusual-volume insight iff
\* ratio = todayCount / max(historical count / 30, 1) > 3 and todayCount > 5;
\* its confidence is min(0.9, 0.6 + (ratio - 3) x 0.1), above 0.6 and at most
\* 0.9, and its data points are the first 5 current records of the ticker.
C18_UnusualVolume ==
    Analyzed
    => \A t \in TickersOf(engine.flows) :
          IF RatioAbove(t, 3) /\ Today_(t) > 5
          THEN /\ Len(VolumeInsightsOf(t)) = 1
               /\ LET confidence == VolumeInsightsOf(t)[1].confidence
                  IN /\ IF RatioAbove(t, 6) THEN confidence = << 9, 10 >>
                        ELSE /\ ConfidenceIsLinear(t, confidence)
                             /\ 10 * confidence[1] <= 9 * confidence[2]
                     /\ 10 * confidence[1] > 6 * confidence[2]
               /\ VolumeInsightsOf(t)[1].dataPoints
                    = SubSeq(SelectSeq(engine.flows, LAMBDA f : f.ticker_symbol = t), 1, 5)
          ELSE VolumeInsightsOf(t) = << >>

\* 7 records today against 60 in the 30 days before: a ratio of 3.5 and a
\* confidence of 0.65; the ticker with 6 records and none before is at 0.9
C18_Witness ==
    /\ Analyzed
    /\ Today_("XYZ") = 7
    /\ Historical_("XYZ") = 60
    /\ Len(VolumeInsightsOf("XYZ")) = 1
    /\ VolumeInsightsOf("XYZ")[1].confidence = << 13, 20 >>
    /\ Today_("QQQ") = 6
    /\ Len(VolumeInsightsOf("QQQ")) = 1
    /\ VolumeInsightsOf("QQQ")[1].confidence = << 9, 10 >>
(***************************************************************************)
(* generateSummary on lists of its own: any records, patterns and          *)
(* anomalies of the declared types                                         *)
(***************************************************************************)
MaxHighSeverity == 3    \* anomalies of severity 'high' in the list
MaxOtherSeverity == 4   \* anomalies of severity 'medium' or 'low' in the list
MaxPatterns == 2        \* patterns in the list
MaxTickers == 6         \* tickers of the current records

TickerAt(i) ==
    << "AAPL", "TSLA", "MSFT", "NVDA", "AMZN", "META", "GOOG", "NFLX" >>[i]

\* the number of records of the i-th of n tickers: rising, falling, all one,
\* or mixed
ActivityAt(shape, i, n) ==
    CASE shape = "rising" -> i
      [] shape = "falling" -> n + 1 - i
      [] shape = "level" -> 1
      [] OTHER -> ((2 * i) % 3) + 1

\* a FlowAnomaly of the severity
Anomaly(severity) ==
    [type |-> "premium", ticker |-> "MARKET", description |-> << >>,
     severity |-> severity, dataPoints |-> << >>, timestamp |-> Now0]

\* a DetectedPattern for the i-th ticker
Pattern(i) ==
    [patternType |-> "block", ticker |-> TickerAt(i), name |-> << >>,
     description |-> << >>, conditions |-> << >>, occurrences |-> 2]

SummaryInputs ==
    { [flows |-> OrderDesc(UNION { Rows(ActivityAt(shape, i, n), 10 * i, Today(8 + i),
                                        TickerAt(i), 100000, "call", "buy") : i \in 1..n }),
       patterns |-> [i \in 1..p |-> Pattern(i)],
       anomalies |-> [i \in 1..(m + h) |->
                         Anomaly(IF i <= m THEN (IF i % 2 = 1 THEN "medium" ELSE "low")
                                 ELSE "high")]] :
        shape \in {"rising", "falling", "level", "mixed"}, n \in 0..MaxTickers,
        p \in 0..MaxPatterns, m \in 0..MaxOtherSeverity, h \in 0..MaxHighSeverity }

InitSummary ==
    /\ now = Now0
    /\ options_flow = {}
    /\ ai_insights = << >>
    /\ flow_patterns = {}
    /\ nextId = 2
    /\ pc = [p \in Runs |-> "idle"]
    /\ frame = [p \in Runs |-> NoFrame]
    /\ outcome = [p \in Runs |-> Pending]
    /\ faultsLeft = 0
    /\ started = 0
    /\ detected = [k \in Keys |-> << >>]
    /\ generated = 0
    /\ overlapped = FALSE
    /\ stored0 = {}
    /\ computed = {}
    /\ csv = NoCsv
    /\ chat = NoChat
    /\ upload = NoUpload
    /\ \E input \in SummaryInputs :
          engine = [phase |-> "lists", flows |-> input.flows,
                    patterns |-> input.patterns, anomalies |-> input.anomalies]

\* generateSummary applied to the three lists
Summarize ==
    /\ engine.phase = "lists"
    /\ engine' = [phase |-> "summarized", flows |-> engine.flows,
                  patterns |-> engine.patterns, anomalies |-> engine.anomalies,
                  summary |-> generateSummary(engine.flows, engine.patterns,
                                              engine.anomalies)]
    /\ UNCHANGED << run, csv, chat, upload >>

SpecSummary == InitSummary /\ [][Summarize]_vars

(***************************************************************************)
(* Properties of generateSummary                                           *)
(***************************************************************************)
Summarized == engine.phase = "summarized"

HighSeverity == Count(engine.anomalies, LAMBDA a : a.severity = "high")

\* C21: riskLevel is 'high' iff more than 2 of the anomalies have severity
\* 'high'; otherwise it is 'medium' iff there are more than 3 anomalies;
\* otherwise it is 'low'.
C21_RiskLevel ==
    Summarized
    => engine.summary.riskLevel
         = (IF HighSeverity > 2 THEN "high"
            ELSE IF Len(engine.anomalies) > 3 THEN "medium"
            ELSE "low")

\* four anomalies, two of them of severity 'high': 'medium'
C21_Witness ==
    /\ Summarized
    /\ Len(engine.anomalies) = 4
    /\ HighSeverity = 2
    /\ engine.summary.riskLevel = "medium"

\* the number of current records of ticker
Activity(ticker) == Count(engine.flows, LAMBDA f : f.ticker_symbol = ticker)

\* C22: topTickers has at most 5 entries, each a ticker of the current
\* records with its number of records, no ticker twice, in descending order
\* of that number, and no ticker left out has more records than one listed;
\* totalFlowsAnalyzed, patternsDetected and anomaliesFound are the lengths of
\* the three lists, also when these are empty.
C22_SummaryRollup ==
    Summarized
    => LET top == engine.summary.topTickers
           listed == { top[i].ticker : i \in 1..Len(top) }
       IN /\ Len(top) = Min(5, Cardinality(TickersOf(engine.flows)))
          /\ listed \subseteq TickersOf(engine.flows)
          /\ Cardinality(listed) = Len(top)
          /\ \A i \in 1..Len(top) : top[i].activity = Activity(top[i].ticker)
          /\ \A i \in 1..(Len(top) - 1) : top[i].activity >= top[i + 1].activity
          /\ \A t \in TickersOf(engine.flows) \ listed :
                \A i \in 1..Len(top) : Activity(t) <= top[i].activity
          /\ engine.summary.totalFlowsAnalyzed = Len(engine.flows)
          /\ engine.summary.patternsDetected = Len(engine.patterns)
          /\ engine.summary.anomaliesFound = Len(engine.anomalies)

\* six tickers, the one read first with the fewest records: it is left out
C22_Witness ==
    /\ Summarized
    /\ Cardinality(TickersOf(engine.flows)) = 6
    /\ Len(engine.summary.topTickers) = 5
    /\ \A i \in 1..5 : engine.summary.topTickers[i].ticker # engine.flows[1].ticker_symbol
    /\ \A i \in 1..4 : engine.summary.topTickers[i].activity
                         > engine.summary.topTickers[i + 1].activity
    /\ engine.summary.patternsDetected = 0
    /\ engine.summary.anomaliesFound = 0
\* ---- C23: the arrays passed to the compute phase ----

\* the array of a ticker that detectMomentumPatterns sorted came out in an
\* order other than the one in which its records were read
SortedInPlace(ticker) ==
    \E i \in 1..Len(engine.arrays.tickerFlows) :
       /\ engine.arrays.tickerFlows[i][1] = ticker
       /\ Len(engine.arrays.tickerFlows[i][2]) >= 5
       /\ engine.arrays.tickerFlows[i][2] # TickerGroup(engine.flows, ticker)

WrittenRows == flow_patterns \ stored0

\* the patterns the runs so far have detected
DetectedPatterns ==
    UNION { Range(c.result.patterns) : c \in computed }

\* C24: every pattern detectPatterns emits has occurrences of 1 or more, and
\* so has every row of flow_patterns that storePatterns wrote, whatever runs
\* went before
C24_OccurrencesPositive ==
    /\ \A pattern \in DetectedPatterns : pattern.occurrences >= 1
    /\ \A r \in WrittenRows : r.occurrences >= 1

\* sweep, block and momentum patterns were detected and stored, and a row
\* was updated by a later run
C24_Witness ==
    /\ { pattern.patternType : pattern \in DetectedPatterns } = PatternTypes
    /\ { r.pattern_type : r \in WrittenRows } = PatternTypes
    /\ \E r \in WrittenRows : r.pattern_type = "momentum" /\ r.occurrences = 6

\* ---- C25: one row per key ----

\* the pattern list of every run names a (ticker, patternType) once
OneEntryPerKey ==
    \A c \in computed :
       \A i, j \in 1..Len(c.result.patterns) :
          KeyOf(c.result.patterns[i]) = KeyOf(c.result.patterns[j]) => i = j

\* C25: whatever runs of the user overlap and however their storePatterns
\* steps interleave, flow_patterns holds at most one row per
\* (ticker, patternType) of the user, and the pattern list of a run has at
\* most one entry per (ticker, patternType)
C25_KeyUniqueness ==
    /\ \A k \in Keys : Cardinality(RowsOfKey(flow_patterns, k[1], k[2])) <= 1
    /\ OneEntryPerKey

\* ---- C26: the lookup that yields no single row ----

RowsFor(table, k) == RowsOfKey(table, k[1], k[2])

\* the pattern run p is storing
CurrentPattern(p) == frame[p].analysis.patterns[frame[p].idx]

\* run p's select returns in this step, with an error or with several rows
LookupYieldsNoSingleRow(p) ==
    /\ pc[p] = "lookup" /\ pc'[p] = "write"
    /\ \/ faultsLeft' < faultsLeft
       \/ Cardinality(RowsFor(flow_patterns, KeyOf(CurrentPattern(p)))) > 1

\* run p's write of the pattern returns in this step without an error
Writes(p) == pc[p] = "write" /\ pc'[p] # "write" /\ faultsLeft' = faultsLeft

\* C26: a select that returns an error or matches more than one row leaves
\* existing null and the pattern is inserted as a new row; so once a key has
\* two rows, each later run that detects the pattern adds one more row for
\* the key and no row of the key has its occurrences changed
C26_DuplicatesGrow ==
    [][\A p \in Runs :
          /\ LookupYieldsNoSingleRow(p) => frame'[p].existing = Null
          /\ Writes(p) /\ frame[p].existing = Null =>
                flow_patterns' = flow_patterns \cup {PatternRow(nextId, CurrentPattern(p), now)}
          /\ \A k \in Keys :
                Cardinality(RowsFor(flow_patterns, k)) >= 2 =>
                   /\ RowsFor(flow_patterns, k) \subseteq RowsFor(flow_patterns', k)
                   /\ Writes(p) /\ KeyOf(CurrentPattern(p)) = k =>
                         Cardinality(RowsFor(flow_patterns', k))
                            = Cardinality(RowsFor(flow_patterns, k)) + 1
    ]_vars

\* a select failed while a row existed, the run inserted a second row, and
\* the next run, finding two, inserted a third; the first row still has the
\* occurrences it started with
C26_Witness ==
    /\ stored0 # {}
    /\ stored0 \subseteq flow_patterns
    /\ \E k \in Keys : Cardinality(RowsFor(flow_patterns, k)) = 3
    /\ faultsLeft = 0

\* ---- C27: the anomalies of a run ----

AnomaliesOfType(type) == SelectSeq(engine.result.anomalies, LAMBDA a : a.type = type)

\* C27: the anomaly list of a run has at most two entries, at most one of
\* type 'timing', which is of severity 'medium', and at most one of type
\* 'premium'; so the riskLevel of the summary is 'low' in every run
C27_RiskAlwaysLow ==
    Analyzed =>
       /\ Len(engine.result.anomalies) <= 2
       /\ Len(AnomaliesOfType("timing")) <= 1
       /\ Len(AnomaliesOfType("premium")) <= 1
       /\ \A i \in 1..Len(engine.result.anomalies) :
             /\ engine.result.anomalies[i].type \in {"timing", "premium"}
             /\ engine.result.anomalies[i].type = "timing" =>
                   engine.result.anomalies[i].severity = "medium"
       /\ engine.result.summary.riskLevel = "low"

\* a run with both anomalies, the premium one of severity 'high', and a
\* riskLevel of 'low'
C27_Witness ==
    /\ Analyzed
    /\ Len(AnomaliesOfType("timing")) = 1
    /\ Len(AnomaliesOfType("premium")) = 1
    /\ \E i \in 1..2 : engine.result.anomalies[i].severity = "high"
    /\ engine.result.summary.riskLevel = "low"

(***************************************************************************)
(* AIChat: the component that starts analysis runs                         *)
(***************************************************************************)
MaxAnalyses == 3    \* runAnalysis calls made in a behaviour
MaxSends == 2       \* chat messages sent in a behaviour

\* no analyzeFlowData call modelled step by step, no rows stored
Quiet ==
    /\ now = Now0
    /\ options_flow = {}
    /\ ai_insights = << >>
    /\ flow_patterns = {}
    /\ nextId = 2
    /\ pc = [p \in Runs |-> "idle"]
    /\ frame = [p \in Runs |-> NoFrame]
    /\ outcome = [p \in Runs |-> Pending]
    /\ faultsLeft = 0
    /\ started = 0
    /\ detected = [k \in Keys |-> << >>]
    /\ generated = 0
    /\ overlapped = FALSE
    /\ stored0 = {}
    /\ computed = {}

\* texts of the input field: empty, a request for an analysis, another query
Queries == {"", "analyze", "help"}

\* lowerQuery.includes('analyze') || lowerQuery.includes('analysis')
asksForAnalysis(query) == query = "analyze"

\* the component after useState and initializeChat, with a user signed in;
\* calls holds the analyzeFlowData calls awaited by runAnalysis
InitChat ==
    /\ Quiet
    /\ csv = NoCsv
    /\ engine = NoEngine
    /\ upload = NoUpload
    /\ chat = [phase |-> "on", messages |-> << "welcome" >>, inputValue |-> "",
               isLoading |-> FALSE, isAnalyzing |-> FALSE, analysisResult |-> FALSE,
               calls |-> {}, invoked |-> 0, sent |-> 0]

\* runAnalysis up to its await: setIsAnalyzing(true) and the call of
\* analyzeFlowData('today'); by is the handler that invoked it
runAnalysis(c, by) ==
    [c EXCEPT !.isAnalyzing = TRUE,
              !.calls = @ \cup {[id |-> c.invoked + 1, by |-> by]},
              !.invoked = @ + 1]

\* onChange of the input, which is disabled while isLoading
ChangeInput(text) ==
    /\ ~chat.isLoading
    /\ text # chat.inputValue
    /\ chat' = [chat EXCEPT !.inputValue = text]
    /\ UNCHANGED << run, csv, engine, upload >>

\* onClick of the button 'Run Analysis', which is disabled while isAnalyzing
ClickRunAnalysis ==
    /\ ~chat.isAnalyzing
    /\ chat.invoked < MaxAnalyses
    /\ chat' = runAnalysis(chat, "button")
    /\ UNCHANGED << run, csv, engine, upload >>

\* handleSendMessage, from the send button (disabled while isLoading or
\* for a blank input) or from Enter in the input (disabled while isLoading);
\* a query that asks for an analysis awaits runAnalysis, any other is
\* answered at once
HandleSendMessage ==
    /\ ~chat.isLoading
    /\ chat.inputValue # ""
    /\ chat.sent < MaxSends
    /\ LET sending == [chat EXCEPT !.messages = Append(@, "user"),
                                   !.inputValue = "",
                                   !.isLoading = TRUE,
                                   !.sent = @ + 1]
       IN IF asksForAnalysis(chat.inputValue)
          THEN /\ chat.invoked < MaxAnalyses
               /\ chat' = runAnalysis(sending, "message")
          ELSE chat' = [sending EXCEPT !.messages = Append(@, "assistant"),
                                       !.isLoading = FALSE]
    /\ UNCHANGED << run, csv, engine, upload >>

\* analyzeFlowData settles: runAnalysis stores the result and adds its
\* message, or reports the error, and in either case sets isAnalyzing to
\* false; a handleSendMessage waiting for it adds its reply and sets
\* isLoading to false
AnalysisSettles(call, resolved) ==
    /\ call \in chat.calls
    /\ LET reported == IF resolved THEN Append(chat.messages, "analysis")
                                   ELSE chat.messages
       IN chat' = [chat EXCEPT
                      !.calls = @ \ {call},
                      !.analysisResult = @ \/ resolved,
                      !.isAnalyzing = FALSE,
                      !.messages = IF call.by = "message"
                                   THEN Append(reported, "assistant") ELSE reported,
                      !.isLoading = IF call.by = "message" THEN FALSE ELSE @]
    /\ UNCHANGED << run, csv, engine, upload >>

NextChat ==
    \/ \E text \in Queries : ChangeInput(text)
    \/ ClickRunAnalysis
    \/ HandleSendMessage
    \/ \E call \in chat.calls : \E resolved \in BOOLEAN : AnalysisSettles(call, resolved)

SpecChat == InitChat /\ [][NextChat]_vars

\* ---- C28: runs started from the chat ----

\* C28: the chat component has at most one analyzeFlowData call in flight:
\* neither the button 'Run Analysis' nor a chat message that asks for an
\* analysis starts a run while isAnalyzing is true or a call is in flight
C28_RunsSerialized ==
    [][chat'.invoked > chat.invoked => ~chat.isAnalyzing /\ chat.calls = {}]_vars

\* the button alone: it never starts a run while isAnalyzing is true
ButtonWaits ==
    [][\A call \in chat'.calls \ chat.calls : call.by = "button" => ~chat.isAnalyzing]_vars

\* ---- C29: row accounting of parseCSV ----

\* the "Row n: ..." strings of the error list
AllRowErrors == SelectSeq(csv.result.errors, LAMBDA e : e[1] = "Row")

\* C29: every input row gives exactly one of a returned record and a
\* "Row n:" error string, so data.length plus the number of "Row n:" strings
\* is totalRecords and data.length <= totalRecords, in every result
C29_RowAccounting ==
    /\ csv.phase \in {"parsed", "failed"}
       => /\ Len(csv.result.data) + Len(AllRowErrors) = csv.result.totalRecords
          /\ Len(csv.result.data) <= csv.result.totalRecords
    /\ csv.phase = "parsed"
       => /\ csv.result.totalRecords = Len(InputRows)
          /\ \A i \in 1..Len(InputRows) :
                Len(RowErrors(i)) = IF WellFormed(InputRows[i]) THEN 0 ELSE 1
          /\ Len(csv.result.data) = Len(SelectSeq(InputRows, WellFormed))
          /\ \A j \in 1..Len(AllRowErrors) : AllRowErrors[j][2] \in 1..Len(InputRows)

\* a result with a record for one row, a "Row n:" string for the other and
\* an error of the reader besides
C29_Witness ==
    /\ csv.phase = "parsed"
    /\ csv.result.totalRecords = 2
    /\ Len(csv.result.data) = 1
    /\ Len(AllRowErrors) = 1
    /\ Len(csv.result.errors) = 2

(***************************************************************************)
(* UploadSection: the status of an upload                                  *)
(***************************************************************************)
MaxUploads == 3     \* handleFiles calls with a CSV file made in a behaviour

\* uploadStats before an upload has finished
NoStats == [processed |-> 0, errors |-> 0, set |-> FALSE]

\* what parseCSV may resolve with for the file: the lengths of data and
\* errors, and totalRecords
ParseResults ==
    { [success |-> FALSE, data |-> 0, errors |-> 1, totalRecords |-> 0],
      [success |-> FALSE, data |-> 0, errors |-> 2, totalRecords |-> 2],
      [success |-> TRUE, data |-> 1, errors |-> 1, totalRecords |-> 2],
      [success |-> TRUE, data |-> 2, errors |-> 0, totalRecords |-> 2] }

\* the component after useState, with a user signed in; calls holds the
\* handleFiles calls that are at an await, timers the setTimeout callbacks
\* not yet run
InitUpload ==
    /\ Quiet
    /\ csv = NoCsv
    /\ engine = NoEngine
    /\ chat = NoChat
    /\ upload = [phase |-> "on", uploadStatus |-> "idle", uploadStats |-> NoStats,
                 calls |-> {}, timers |-> {}, invoked |-> 0]

\* handleFiles with one CSV file, up to 'await parseCSV(file)'
handleFiles(u) ==
    [u EXCEPT !.uploadStatus = "uploading",
              !.uploadStats = NoStats,
              !.calls = @ \cup {[id |-> u.invoked + 1, at |-> "parseCSV",
                                 totalProcessed |-> 0, totalErrors |-> 0,
                                 batch |-> 0, parseErrors |-> 0]},
              !.invoked = @ + 1]

\* the files come from the file input, whose label is rendered while the
\* status is 'idle'
SelectFiles ==
    /\ upload.uploadStatus = "idle"
    /\ upload.invoked < MaxUploads
    /\ upload' = handleFiles(upload)
    /\ UNCHANGED << run, csv, engine, chat >>

\* the files are dropped on the upload area, which takes drops in every status
DropFiles ==
    /\ upload.invoked < MaxUploads
    /\ upload' = handleFiles(upload)
    /\ UNCHANGED << run, csv, engine, chat >>

\* the end of the try block: setUploadStats, setUploadStatus('success') if a
\* record was processed and ('error') if none, and the timer of 5000 ms
finish(u, call, totalProcessed, totalErrors) ==
    [u EXCEPT !.uploadStats = [processed |-> totalProcessed, errors |-> totalErrors,
                               set |-> TRUE],
              !.uploadStatus = IF totalProcessed > 0 THEN "success" ELSE "error",
              !.timers = @ \cup {[id |-> call.id, delay |-> 5000]},
              !.calls = @ \ {call}]

\* parseCSV resolves: a file that failed adds its totalRecords to the errors
\* and the loop is over; the records of any other go to the insert
ParseSettles(call, parseResult) ==
    /\ call \in upload.calls
    /\ call.at = "parseCSV"
    /\ upload' = IF ~parseResult.success
                 THEN finish(upload, call, 0, parseResult.totalRecords)
                 ELSE [upload EXCEPT !.calls = (@ \ {call}) \cup
                          {[call EXCEPT !.at = "insert", !.batch = parseResult.data,
                                        !.parseErrors = parseResult.errors]}]
    /\ UNCHANGED << run, csv, engine, chat >>

\* the insert of the batch returns, with an error or without
InsertSettles(call, error) ==
    /\ call \in upload.calls
    /\ call.at = "insert"
    /\ upload' = IF error
                 THEN finish(upload, call, 0, call.batch + call.parseErrors)
                 ELSE finish(upload, call, call.batch, call.parseErrors)
    /\ UNCHANGED << run, csv, engine, chat >>

\* the awaited promise rejects: the catch block sets 'error' and the timer
\* of 3000 ms
AwaitRejects(call) ==
    /\ call \in upload.calls
    /\ upload' = [upload EXCEPT !.uploadStatus = "error",
                                !.timers = @ \cup {[id |-> call.id, delay |-> 3000]},
                                !.calls = @ \ {call}]
    /\ UNCHANGED << run, csv, engine, chat >>

\* the timer of an upload runs its callback; nothing cancels a timer
TimerFires(timer) ==
    /\ timer \in upload.timers
    /\ upload' = [upload EXCEPT !.uploadStatus = "idle",
                                !.uploadStats = NoStats,
                                !.timers = @ \ {timer}]
    /\ UNCHANGED << run, csv, engine, chat >>

NextUpload ==
    \/ SelectFiles
    \/ DropFiles
    \/ \E call \in upload.calls : \E parseResult \in ParseResults :
          ParseSettles(call, parseResult)
    \/ \E call \in upload.calls : \E error \in BOOLEAN : InsertSettles(call, error)
    \/ \E call \in upload.calls : AwaitRejects(call)
    \/ \E timer \in upload.timers : TimerFires(timer)

SpecUpload == InitUpload /\ [][NextUpload]_vars

\* the browser runs the callback of every timer that is due
SpecUploadLive ==
    SpecUpload /\ WF_vars(\E timer \in upload.timers : TimerFires(timer))

\* ---- C30: the status of an upload ----

\* C30: while a handleFiles call is between its setUploadStatus('uploading')
\* and its setUploadStatus('success') or ('error') the status is
\* 'uploading', and the timer of an earlier upload changes neither the
\* status nor the stats once a later upload has begun
C30_StatusMachine ==
    [][/\ upload'.calls # {} => upload'.uploadStatus = "uploading"
       /\ \A timer \in upload.timers \ upload'.timers :
             timer.id < upload.invoked =>
                /\ upload'.uploadStatus = upload.uploadStatus
                /\ upload'.uploadStats = upload.uploadStats]_vars

\* once no upload is running the status returns to 'idle'
EventuallyIdle == (upload.calls = {}) ~> (upload.uploadStatus = "idle")

====
